---- MODULE Spec2Model ----
(***************************************************************************)
(* Analytics engine of the Zenalyst dashboard: the client-side k-means     *)
(* segmentation (performSegmentation), the client-side outlier scan        *)
(* (generateInsights) and the server-side result cache (get_or_compute).   *)
(*                                                                         *)
(* Numbers: the JavaScript code works on doubles.  The model works on      *)
(* exact rationals kept as integer numerators over an integer denominator, *)
(* and compares them by cross-multiplication; NaN is modelled explicitly   *)
(* (every comparison with NaN is false).                                   *)
(***************************************************************************)
EXTENDS Integers, Sequences, FiniteSets, TLC

\* An absent (undefined) numeric input.
Absent == -1

(***************************************************************************)
(* Bounds of the model.                                                    *)
(***************************************************************************)
MaxVendors == 3
MaxK == 3
MaxTransactions == 7
MaxVersion == 2
MaxFairVendors == 2
MaxSnapshotVendors == 1
MaxSnapshotTransactions == 1
MaxRecords == 3
MaxBuckets == 4
MaxOutlierRecords == 6
MaxTableRecords == 6
MaxInFlight == 2
MaxDataVersion == 3
MaxBatch == 2
MaxFileIds == 3
MaxSelected == 2
MaxCompleted == 1
MaxUploads == 2

\* vendor.totalAmount and vendor.transactionCount as they arrive from the
\* API: a number, or Absent.  The amounts are multiples of every
\* count so that totalAmount / transactionCount is an integer.
TotalAmounts == {Absent, 4, 12}
TransactionCounts == {0, 2}
VendorInputs == [totalAmount : TotalAmounts, transactionCount : TransactionCounts]

RECURSIVE SeqsUpTo(_, _)
SeqsUpTo(S, n) ==
  IF n = 0 THEN {<<>>}
  ELSE LET shorter == SeqsUpTo(S, n - 1)
       IN shorter \cup {Append(s, x) : s \in {t \in shorter : Len(t) = n - 1}, x \in S}

Max2(a, b) == IF a > b THEN a ELSE b

VARIABLES
  \* ---- performSegmentation ----
  segData,       \* the data argument
  segK,          \* the k argument
  segPc,         \* position in performSegmentation
  vendors,       \* extracted feature records
  centroids,     \* the centroids array
  used,          \* the used index set
  clusters,      \* the clusters array of the last assignToClusters
  iter,          \* the loop counter i
  segResult,     \* the returned object
  segError,      \* the error thrown out of performSegmentation
  picked,        \* the indices Math.random() chose, in order
  \* ---- DocumentInsights.generateInsights ----
  insData,       \* data.transactions, as the sequence of the amounts
  insPc,         \* position in generateInsights
  unusualTransactions,  \* the unusualTransactions array
  \* ---- Result Cache ----
  dataVersion,   \* the current data_version of the record store
  store,         \* key -> CacheEntry
  lock,          \* key -> the caller holding the per-key lock
  last,          \* key -> summary of the last completed call on the key
  pc,            \* caller -> position in get_or_compute
  call,          \* caller -> the arguments (key, data_version, bypass)
  result,        \* caller -> the returned value
  src,           \* caller -> where the returned value came from
  computes,      \* caller -> compute_fn invocations of this call
  overlap,       \* caller -> callers on the same key in flight with it
  \* ---- Aggregator ----
  aggRecords,    \* the records argument
  aggPc,         \* position in aggregate
  aggResult,     \* GroupKey -> AggregateResult
  \* ---- EnhancedTimeSeriesChart ----
  tsBuckets,     \* the buckets the server holds, in date order
  tsDesc,        \* whether time_series is sent newest first
  tsOutcome,     \* how the time-series request ends
  fcOutcome,     \* how the forecast request ends
  selectedMetric, \* useState: the metric selected
  tsPc,          \* position in fetchData
  tsLoading,     \* useState: loading
  tsError,       \* useState: error
  timeSeriesData, \* useState: the mapped and sorted points
  trendAnalysis, \* useState: the trend label
  \* ---- OutlierDetectionCard ----
  olScores,      \* the scores of the records, in insertion order
  contamination, \* useState: the sensitivity, in percent
  olOutcome,     \* how the outliers request ends
  olPc,          \* position in fetchOutliers
  olLoading,     \* useState: loading
  olError,       \* useState: error
  outliers,      \* useState: the outliers shown
  \* ---- EnhancedTransactionTable ----
  tblCount,      \* number of transactions in the snapshot
  searchQuery,   \* useState: the search field
  page,          \* useState: page, from 0
  rowsPerPage,   \* useState: rows per page
  requests,      \* the requests in flight
  transactions,  \* useState: the rows shown, as transaction ids
  tblTotal,      \* useState: total
  tblLoading,    \* useState: loading
  tblError,      \* useState: error
  searched,      \* the query of the last search submitted from a later page
  \* ---- App ----
  appPc,         \* position: before the first render, request pending, settled
  analysisData,  \* useState: analysisData
  appLoading,    \* useState: loading
  storage,       \* the localStorage item zenalyst_analysis_data
  savedAtStart,  \* the item an earlier session left
  uploaded,      \* whether an upload of this session has set the data
  \* ---- ProcessSelection ----
  selectedProcess, \* useState: the id of the selected process
  uploadedFiles, \* useState: the uploaded files
  isProcessing,  \* useState: isProcessing
  nextFileId,    \* the next unused file id
  \* ---- FileUploader ----
  selectedFiles, \* useState: selectedFiles
  uploading,     \* useState: uploading
  uploadProgress, \* useState: uploadProgress
  fuStatus,      \* useState: uploadStatus
  processedFiles, \* useState: processedFiles
  fuError,       \* useState: error
  fuPc,          \* position in uploadFiles
  completeCalls, \* number of calls of onUploadComplete
  lastOutcome,   \* how the last uploadFiles ended, until the next user action
  filesAtStart,  \* selectedFiles when uploadFiles started
  callsAtStart,  \* completeCalls when uploadFiles started
  progressAtFailure, \* uploadProgress just before the failure
  \* ---- FileUpload ----
  dragActive,    \* useState: dragActive
  uploadStatus,  \* useState: uploadStatus
  upProcess,     \* useState: selectedProcess
  showLegacyUpload, \* useState: showLegacyUpload
  upLoading,     \* last value passed to setLoading
  upData,        \* last value passed to setAnalysisData
  upRequests,    \* fetch requests awaiting their outcome, by process
  pendingTimers, \* setTimeout callbacks of the catch blocks not yet run
  okResponses,   \* number of requests the server answered with an OK response
  upStarted,     \* number of uploads started
  processHandedOver  \* ProcessSelection called onFileUpload

segVars == <<segData, segK, segPc, vendors, centroids, used, clusters, iter, segResult,
             segError, picked>>

insVars == <<insData, insPc, unusualTransactions>>

cacheVars == <<dataVersion, store, lock, last, pc, call, result, src,
               computes, overlap>>

aggVars == <<aggRecords, aggPc, aggResult>>

chartVars == <<tsBuckets, tsDesc, tsOutcome, fcOutcome, selectedMetric, tsPc,
               tsLoading, tsError, timeSeriesData, trendAnalysis>>

outlierVars == <<olScores, contamination, olOutcome, olPc, olLoading, olError, outliers>>

tableVars == <<tblCount, searchQuery, page, rowsPerPage, requests, transactions, tblTotal, tblLoading, tblError, searched>>

appVars == <<appPc, analysisData, appLoading, storage, savedAtStart, uploaded>>

procVars == <<selectedProcess, uploadedFiles, isProcessing, nextFileId>>

fuVars == <<selectedFiles, uploading, uploadProgress, fuStatus, processedFiles, fuError, fuPc, completeCalls, lastOutcome, filesAtStart, callsAtStart, progressAtFailure>>

upVars == <<dragActive, uploadStatus, upProcess, showLegacyUpload, upLoading, upData, upRequests, pendingTimers, okResponses, upStarted, processHandedOver>>

vars == <<segData, segK, segPc, vendors, centroids, used, clusters, iter, segResult,
          segError, picked,
          insData, insPc, unusualTransactions,
          dataVersion, store, lock, last, pc, call, result, src,
          computes, overlap,
          aggRecords, aggPc, aggResult,
          tsBuckets, tsDesc, tsOutcome, fcOutcome, selectedMetric, tsPc,
          tsLoading, tsError, timeSeriesData, trendAnalysis,
          olScores, contamination, olOutcome, olPc, olLoading, olError, outliers,
          tblCount, searchQuery, page, rowsPerPage, requests, transactions, tblTotal, tblLoading, tblError, searched,
          appPc, analysisData, appLoading, storage, savedAtStart, uploaded,
          selectedProcess, uploadedFiles, isProcessing, nextFileId,
          selectedFiles, uploading, uploadProgress, fuStatus, processedFiles, fuError, fuPc, completeCalls, lastOutcome, filesAtStart, callsAtStart, progressAtFailure,
          dragActive, uploadStatus, upProcess, showLegacyUpload, upLoading, upData, upRequests, pendingTimers, okResponses, upStarted, processHandedOver>>

(***************************************************************************)
(* performSegmentation                                                     *)
(***************************************************************************)
MAX_ITERATIONS == 10

\* The value undefined in a centroid slot.
Undefined == [total |-> 0, unit_price |-> 0, count |-> 0, n |-> 0, nan |-> FALSE]

\* Feature extraction of one vendor.  `x || 0` turns an absent value into 0;
\* totalAmount / Math.max(1, transactionCount) is NaN when either is absent.
ExtractFeatures(vendor) ==
  [ total      |-> IF vendor.totalAmount = Absent THEN 0 ELSE vendor.totalAmount,
    count      |-> IF vendor.transactionCount = Absent THEN 0 ELSE vendor.transactionCount,
    unit_price |-> IF vendor.totalAmount = Absent \/ vendor.transactionCount = Absent
                   THEN 0
                   ELSE vendor.totalAmount \div Max2(1, vendor.transactionCount),
    nan        |-> vendor.totalAmount = Absent \/ vendor.transactionCount = Absent ]

\* A centroid is the rational vector (total/n, unit_price/n, count/n);
\* nan says that its unit_price is NaN.
CentroidOf(v) ==
  [total |-> v.total, unit_price |-> v.unit_price, count |-> v.count, n |-> 1, nan |-> v.nan]

\* Squared distance of a vendor to a centroid, as a fraction num/den, or NaN.
Dist(v, c) ==
  [ nan |-> v.nan \/ c.nan,
    inf |-> FALSE,
    num |-> (c.n * v.total - c.total) * (c.n * v.total - c.total)
          + (c.n * v.unit_price - c.unit_price) * (c.n * v.unit_price - c.unit_price)
          + (c.n * v.count - c.count) * (c.n * v.count - c.count),
    den |-> c.n * c.n ]

Infinity == [nan |-> FALSE, inf |-> TRUE, num |-> 0, den |-> 1]

\* Variant: the comparison is turned round, dist > minDist.
DistGreater(d, m) ==
  /\ ~d.nan
  /\ ~m.nan
  /\ ~m.inf
  /\ (d.inf \/ d.num * m.den > m.num * d.den)

\* dist < minDist on doubles: false when either side is NaN.
DistLess(d, m) ==
  /\ ~d.nan
  /\ ~m.nan
  /\ ~d.inf
  /\ (m.inf \/ d.num * m.den < m.num * d.den)

\* centroids.forEach of assignToClusters for one vendor, from centroid
\* position j on, carrying minDist and clusterIdx (0-based).
RECURSIVE NearestFrom(_, _, _, _, _)
NearestFrom(v, cs, j, minDist, clusterIdx) ==
  IF j > Len(cs) THEN clusterIdx
  ELSE LET dist == Dist(v, cs[j])
       IN IF DistLess(dist, minDist)
          THEN NearestFrom(v, cs, j + 1, dist, j - 1)
          ELSE NearestFrom(v, cs, j + 1, minDist, clusterIdx)

\* Variant: clusterIdx starts at -1 instead of 0.
NearestNoDefault(v, cs) == NearestFrom(v, cs, 1, Infinity, -1)

Nearest(v, cs) == NearestFrom(v, cs, 1, Infinity, 0)

\* vendors.forEach of assignToClusters: the members of cluster c (0-based),
\* in vendor order, each with its index into vendors and its cluster_id.
RECURSIVE MembersFrom(_, _, _, _)
MembersFrom(vs, cs, c, i) ==
  IF i > Len(vs) THEN <<>>
  ELSE IF Nearest(vs[i], cs) = c
       THEN <<[idx |-> i, cluster_id |-> c]>> \o MembersFrom(vs, cs, c, i + 1)
       ELSE MembersFrom(vs, cs, c, i + 1)

\* assignToClusters throws when Array(k) is given a negative length, when a
\* centroid is undefined (reading centroid.total), or when clusters[clusterIdx]
\* does not exist.
AssignThrows(vs, cs, kk) ==
  \/ kk < 0
  \/ /\ Len(vs) > 0
     /\ \/ \E j \in 1..Len(cs) : cs[j] = Undefined
        \/ kk = 0

\* The error it throws: Array(k) with negative k is a RangeError, reading a
\* property of undefined is a TypeError.
AssignError(vs, cs, kk) == IF kk < 0 THEN "RangeError" ELSE "TypeError"

assignToClusters(vs, cs, kk) ==
  [c \in 1..kk |-> MembersFrom(vs, cs, c - 1, 1)]

RECURSIVE SumField(_, _, _)
SumField(vs, cluster, f) ==
  IF cluster = <<>> THEN 0
  ELSE vs[cluster[1].idx][f] + SumField(vs, Tail(cluster), f)

\* Variant: an empty cluster's centroid is moved to the origin.
updateCentroidsResetEmpty(vs, cs, cl) ==
  [c \in 1..Len(cl) |->
     IF Len(cl[c]) = 0
     THEN [total |-> 0, unit_price |-> 0, count |-> 0, n |-> 1, nan |-> FALSE]
     ELSE [ total      |-> SumField(vs, cl[c], "total"),
            unit_price |-> SumField(vs, cl[c], "unit_price"),
            count      |-> SumField(vs, cl[c], "count"),
            n          |-> Len(cl[c]),
            nan        |-> \E m \in 1..Len(cl[c]) : vs[cl[c][m].idx].nan ]]

\* updateCentroids: the mean of the members, or the previous centroid
\* (centroids[idx], undefined beyond the array) for an empty cluster.
updateCentroids(vs, cs, cl) ==
  [c \in 1..Len(cl) |->
     IF Len(cl[c]) = 0
     THEN IF c <= Len(cs) THEN cs[c] ELSE Undefined
     ELSE [ total      |-> SumField(vs, cl[c], "total"),
            unit_price |-> SumField(vs, cl[c], "unit_price"),
            count      |-> SumField(vs, cl[c], "count"),
            n          |-> Len(cl[c]),
            nan        |-> \E m \in 1..Len(cl[c]) : vs[cl[c][m].idx].nan ]]

\* Math.round((size / n) * 100)
Percentage(size, n) == (200 * size + n) \div (2 * n)

FormatResult(vs, cs, cl) ==
  [ clusters      |-> [c \in 1..Len(cs) |-> [cluster_id |-> c - 1, center |-> cs[c]]],
    cluster_stats |-> [c \in 1..Len(cl) |->
                         [ cluster_id |-> c - 1,
                           size       |-> Len(cl[c]),
                           percentage |-> Percentage(Len(cl[c]), Len(vs)) ]] ]

EmptyResult == [clusters |-> <<>>, cluster_stats |-> <<>>]

\* No segmentation call is under way.
SegIdle ==
  /\ segData = <<>>
  /\ segK = 0
  /\ segPc = "idle"
  /\ vendors = <<>>
  /\ centroids = <<>>
  /\ used = {}
  /\ clusters = <<>>
  /\ iter = 0
  /\ segResult = EmptyResult
  /\ segError = "none"
  /\ picked = <<>>

SegInit ==
  /\ segData \in SeqsUpTo(VendorInputs, MaxVendors)
  /\ segK \in (-1)..MaxK
  /\ segPc = "start"
  /\ vendors = <<>>
  /\ centroids = <<>>
  /\ used = {}
  /\ clusters = <<>>
  /\ iter = 0
  /\ segResult = EmptyResult
  /\ segError = "none"
  /\ picked = <<>>

\* Variant: no early return for empty data.
SegStartNoEarlyReturn ==
  /\ segPc = "start"
  /\ vendors' = [i \in 1..Len(segData) |-> ExtractFeatures(segData[i])]
  /\ segPc' = "init"
  /\ UNCHANGED <<segData, segK, centroids, used, clusters, iter, segResult, segError, picked>>

\* Entry: the empty-data early return, else feature extraction.
SegStart ==
  /\ segPc = "start"
  /\ IF Len(segData) = 0
     THEN /\ segResult' = EmptyResult
          /\ segPc' = "done"
          /\ UNCHANGED vendors
     ELSE /\ vendors' = [i \in 1..Len(segData) |-> ExtractFeatures(segData[i])]
          /\ segPc' = "init"
          /\ UNCHANGED segResult
  /\ UNCHANGED <<segData, segK, centroids, used, clusters, iter, segError, picked>>

\* One successful round of the centroid-picking loop: Math.random() gives an
\* index that is not yet used.  A round that draws a used index changes
\* nothing.
PickCentroid ==
  /\ segPc = "init"
  /\ Len(centroids) < segK
  /\ Len(centroids) < Len(vendors)
  /\ \E idx \in 1..Len(vendors) :
       /\ idx \notin used
       /\ used' = used \cup {idx}
       /\ centroids' = Append(centroids, CentroidOf(vendors[idx]))
       /\ picked' = Append(picked, idx)
  /\ UNCHANGED <<segData, segK, segPc, vendors, clusters, iter, segResult, segError>>

\* The picking loop ends; the iteration loop starts with i = 0.
EnterLoop ==
  /\ segPc = "init"
  /\ ~(Len(centroids) < segK /\ Len(centroids) < Len(vendors))
  /\ segPc' = "assign"
  /\ iter' = 0
  /\ UNCHANGED <<segData, segK, vendors, centroids, used, clusters, segResult,
                 segError, picked>>

\* clusters = assignToClusters()
AssignStep ==
  /\ segPc = "assign"
  /\ iter < MAX_ITERATIONS
  /\ IF AssignThrows(vendors, centroids, segK)
     THEN /\ segPc' = "error"
          /\ segError' = AssignError(vendors, centroids, segK)
          /\ UNCHANGED clusters
     ELSE /\ clusters' = assignToClusters(vendors, centroids, segK)
          /\ segPc' = "update"
          /\ UNCHANGED segError
  /\ UNCHANGED <<segData, segK, vendors, centroids, used, iter, segResult, picked>>

\* Variant: an empty cluster is reseeded from a randomly drawn vendor.
UpdateStepReseeding ==
  /\ segPc = "update"
  /\ \E idx \in 1..Len(vendors) :
       centroids' = [c \in 1..Len(clusters) |->
                       IF Len(clusters[c]) = 0
                       THEN CentroidOf(vendors[idx])
                       ELSE updateCentroids(vendors, centroids, clusters)[c]]
  /\ iter' = iter + 1
  /\ segPc' = "assign"
  /\ UNCHANGED <<segData, segK, vendors, used, clusters, segResult, segError, picked>>

\* Variant: the loop counter is not advanced.
UpdateStepNoIncrement ==
  /\ segPc = "update"
  /\ centroids' = updateCentroids(vendors, centroids, clusters)
  /\ segPc' = "assign"
  /\ UNCHANGED <<segData, segK, vendors, used, clusters, iter, segResult, segError, picked>>

\* centroids = updateCentroids(clusters); i++
UpdateStep ==
  /\ segPc = "update"
  /\ centroids' = updateCentroids(vendors, centroids, clusters)
  /\ iter' = iter + 1
  /\ segPc' = "assign"
  /\ UNCHANGED <<segData, segK, vendors, used, clusters, segResult, segError, picked>>

\* The loop is over: build and return the result.
SegFinish ==
  /\ segPc = "assign"
  /\ iter = MAX_ITERATIONS
  /\ segResult' = FormatResult(vendors, centroids, clusters)
  /\ segPc' = "done"
  /\ UNCHANGED <<segData, segK, vendors, centroids, used, clusters, iter, segError, picked>>

SegNext ==
  /\ SegStart \/ PickCentroid \/ EnterLoop \/ AssignStep \/ UpdateStep \/ SegFinish
  /\ UNCHANGED insVars
  /\ UNCHANGED cacheVars
  /\ UNCHANGED aggVars
  /\ UNCHANGED chartVars
  /\ UNCHANGED outlierVars
  /\ UNCHANGED tableVars
  /\ UNCHANGED appVars
  /\ UNCHANGED procVars
  /\ UNCHANGED fuVars
  /\ UNCHANGED upVars

(***************************************************************************)
(* DocumentInsights.generateInsights: unusual transactions                 *)
(***************************************************************************)
\* transaction.amount as it arrives: a number, or Absent.
Amounts == {Absent, 10, 1000}

\* The factor of "more than 2 standard deviations from the mean".
STD_FACTOR == 2

RECURSIVE SumSeq(_)
SumSeq(a) == IF a = <<>> THEN 0 ELSE a[1] + SumSeq(Tail(a))

\* A sum or a quotient is NaN when an amount is undefined, and 0 / 0 is NaN.
StatsNaN(a) == Len(a) = 0 \/ \E i \in 1..Len(a) : a[i] = Absent

\* Variant: the sum is divided by length - 1.
MeanOverLengthMinusOne(a) == [num |-> SumSeq(a), den |-> Len(a) - 1, nan |-> StatsNaN(a)]

\* mean = amounts.reduce((sum, val) => sum + val, 0) / amounts.length,
\* the fraction num/den.
Mean(a) == [num |-> SumSeq(a), den |-> Len(a), nan |-> StatsNaN(a)]

\* (x - mean) scaled by mean.den.
Deviation(x, mean) == mean.den * x - mean.num

RECURSIVE SumSqDev(_, _)
SumSqDev(a, mean) ==
  IF a = <<>> THEN 0
  ELSE Deviation(a[1], mean) * Deviation(a[1], mean) + SumSqDev(Tail(a), mean)

\* stdDev squared, scaled by mean.den squared: the sum of
\* Math.pow(x - mean, 2) over amounts.length, the fraction num/den.
ScaledVariance(a) == [num |-> SumSqDev(a, Mean(a)), den |-> Len(a), nan |-> StatsNaN(a)]

\* Variant: the comparison is >= instead of >.
IsUnusualNonStrict(x, a) ==
  /\ ~StatsNaN(a)
  /\ x # Absent
  /\ Deviation(x, Mean(a)) * Deviation(x, Mean(a)) * ScaledVariance(a).den
       >= STD_FACTOR * STD_FACTOR * ScaledVariance(a).num

\* Variant: the factor 2 is left out.
IsUnusualOneSigma(x, a) ==
  /\ ~StatsNaN(a)
  /\ x # Absent
  /\ Deviation(x, Mean(a)) * Deviation(x, Mean(a)) * ScaledVariance(a).den
       > ScaledVariance(a).num

\* Math.abs(transaction.amount - mean) > 2 * stdDev, with both sides squared
\* (both are non-negative) and scaled by mean.den squared; false when a
\* side is NaN.
IsUnusual(x, a) ==
  /\ ~StatsNaN(a)
  /\ x # Absent
  /\ Deviation(x, Mean(a)) * Deviation(x, Mean(a)) * ScaledVariance(a).den
       > STD_FACTOR * STD_FACTOR * ScaledVariance(a).num

\* transaction.amount > mean ? 'High value transaction' : 'Low value transaction'
Reason(x, mean) == IF Deviation(x, mean) > 0 THEN "High value transaction" ELSE "Low value transaction"

\* data.transactions.forEach: the flagged transactions from position i on.
RECURSIVE UnusualFrom(_, _)
UnusualFrom(a, i) ==
  IF i > Len(a) THEN <<>>
  ELSE IF IsUnusual(a[i], a)
       THEN <<[idx |-> i, amount |-> a[i], reason |-> Reason(a[i], Mean(a))]>>
            \o UnusualFrom(a, i + 1)
       ELSE UnusualFrom(a, i + 1)

InsIdle ==
  /\ insData = <<>>
  /\ insPc = "idle"
  /\ unusualTransactions = <<>>

InsInit ==
  /\ insData \in SeqsUpTo(Amounts, MaxTransactions)
  /\ insPc = "start"
  /\ unusualTransactions = <<>>

\* generateInsights(data): the unusual-transactions block and setInsights.
GenerateInsights ==
  /\ insPc = "start"
  /\ unusualTransactions' = UnusualFrom(insData, 1)
  /\ insPc' = "done"
  /\ UNCHANGED insData

InsNext ==
  /\ GenerateInsights
  /\ UNCHANGED segVars
  /\ UNCHANGED cacheVars
  /\ UNCHANGED aggVars
  /\ UNCHANGED chartVars
  /\ UNCHANGED outlierVars
  /\ UNCHANGED tableVars
  /\ UNCHANGED appVars
  /\ UNCHANGED procVars
  /\ UNCHANGED fuVars
  /\ UNCHANGED upVars

(***************************************************************************)
(* Result Cache: get_or_compute(key, data_version, compute_fn, bypass)     *)
(* behind the analytics endpoints, with a per-key lock.                    *)
(***************************************************************************)
\* Concurrent request handlers.
Procs == {"p1", "p2"}
NoProc == "none"

\* Cached operations (the analytics endpoints the client queries).
Keys == {"clustering", "outliers"}

NoValue == [key |-> "", ver |-> 0]

\* compute_fn: the result of the operation over the snapshot of version dv.
ComputeValue(k, dv) == [key |-> k, ver |-> dv]

NoEntry == [present |-> FALSE, value |-> NoValue, data_version |-> 0]

\* Variant: the entry is written without its data_version.
NewEntryUntagged(k, dv) == [present |-> TRUE, value |-> ComputeValue(k, dv), data_version |-> 0]

\* The entry that replaces the stored one after a computation.
NewEntry(k, dv) == [present |-> TRUE, value |-> ComputeValue(k, dv), data_version |-> dv]

\* Variant: any stored entry counts as fresh.
FreshAnyVersion(entry, dv) == entry.present

\* The stored entry may be returned for data_version dv.
Fresh(entry, dv) == entry.present /\ entry.data_version = dv

\* Variant: bypass is not looked at.
UseStoredIgnoringBypass(entry, dv, bypass) == Fresh(entry, dv)

\* The lookup returns the stored value.
UseStored(entry, dv, bypass) == ~bypass /\ Fresh(entry, dv)

\* Variant: the lock is never waited for.
LockFreeAlways(k) == TRUE

\* The per-key lock can be taken.
LockFree(k) == lock[k] = NoProc

\* Variant: a failed computation leaves an entry behind.
StoreAfterFailureWithEntry(st, k, dv) ==
  [st EXCEPT ![k] = [present |-> TRUE, value |-> NoValue, data_version |-> dv]]

\* The store after a failed computation.
StoreAfterFailure(st, k, dv) == st

NoCall == [key |-> "", data_version |-> 0, bypass |-> FALSE]

NoLast == [valid |-> FALSE, data_version |-> 0, bypass |-> FALSE, ok |-> FALSE,
           computes |-> 0]

InFlight(q) == pc[q] \in {"waiting", "computing"}

CacheIdle ==
  /\ dataVersion = 1
  /\ store = [k \in Keys |-> NoEntry]
  /\ lock = [k \in Keys |-> NoProc]
  /\ last = [k \in Keys |-> NoLast]
  /\ pc = [p \in Procs |-> "idle"]
  /\ call = [p \in Procs |-> NoCall]
  /\ result = [p \in Procs |-> NoValue]
  /\ src = [p \in Procs |-> "none"]
  /\ computes = [p \in Procs |-> 0]
  /\ overlap = [p \in Procs |-> {}]

\* A new ingestion advances data_version.
Ingest ==
  /\ dataVersion < MaxVersion
  /\ dataVersion' = dataVersion + 1
  /\ UNCHANGED <<store, lock, last, pc, call, result, src, computes,
                 overlap>>

\* A request arrives: get_or_compute(k, current data_version, compute_fn, bypass).
Arrive(p, k, bypass) ==
  /\ pc[p] = "idle"
  /\ pc' = [pc EXCEPT ![p] = "waiting"]
  /\ call' = [call EXCEPT ![p] = [key |-> k, data_version |-> dataVersion, bypass |-> bypass]]
  /\ overlap' = [q \in Procs |->
                   IF q = p THEN {r \in Procs \ {p} : InFlight(r) /\ call[r].key = k}
                   ELSE IF InFlight(q) /\ call[q].key = k THEN overlap[q] \cup {p}
                   ELSE overlap[q]]
  /\ UNCHANGED <<dataVersion, store, lock, last, result, src, computes>>

\* The client fetches on mount or on a parameter change: skipCache = false.
FetchOnMount(p, k) == Arrive(p, k, FALSE)

\* The client's refresh button: fetchSegments(true), fetchOutliers(true).
RefreshClick(p, k) == Arrive(p, k, TRUE)

\* Under the key's lock: look the entry up; return it when it may be used,
\* else keep the lock and go on to compute.
Lookup(p) ==
  LET k == call[p].key
      entry == store[k]
  IN /\ pc[p] = "waiting"
     /\ LockFree(k)
     /\ IF UseStored(entry, call[p].data_version, call[p].bypass)
        THEN /\ result' = [result EXCEPT ![p] = entry.value]
             /\ src' = [src EXCEPT ![p] = "stored"]
             /\ pc' = [pc EXCEPT ![p] = "returned"]
             /\ last' = [last EXCEPT ![k] =
                            [valid |-> TRUE, data_version |-> call[p].data_version,
                             bypass |-> call[p].bypass, ok |-> TRUE,
                             computes |-> 0]]
             /\ UNCHANGED lock
        ELSE /\ lock' = [lock EXCEPT ![k] = p]
             /\ pc' = [pc EXCEPT ![p] = "computing"]
             /\ UNCHANGED <<result, src, last>>
     /\ UNCHANGED <<dataVersion, store, call, computes, overlap>>

\* compute_fn returns: the entry is replaced wholesale, the lock released.
ComputeOk(p) ==
  LET k == call[p].key
      dv == call[p].data_version
  IN /\ pc[p] = "computing"
     /\ computes' = [computes EXCEPT ![p] = computes[p] + 1]
     /\ store' = [store EXCEPT ![k] = NewEntry(k, dv)]
     /\ result' = [result EXCEPT ![p] = ComputeValue(k, dv)]
     /\ src' = [src EXCEPT ![p] = "computed"]
     /\ lock' = [lock EXCEPT ![k] = NoProc]
     /\ last' = [last EXCEPT ![k] =
                    [valid |-> TRUE, data_version |-> dv, bypass |-> call[p].bypass,
                     ok |-> TRUE, computes |-> 1]]
     /\ pc' = [pc EXCEPT ![p] = "returned"]
     /\ UNCHANGED <<dataVersion, call, overlap>>

\* compute_fn raises: the error goes to the caller, the lock is released.
ComputeFail(p) ==
  LET k == call[p].key
      dv == call[p].data_version
  IN /\ pc[p] = "computing"
     /\ computes' = [computes EXCEPT ![p] = computes[p] + 1]
     /\ store' = StoreAfterFailure(store, k, dv)
     /\ src' = [src EXCEPT ![p] = "error"]
     /\ lock' = [lock EXCEPT ![k] = NoProc]
     /\ last' = [last EXCEPT ![k] =
                    [valid |-> TRUE, data_version |-> dv, bypass |-> call[p].bypass,
                     ok |-> FALSE, computes |-> 1]]
     /\ pc' = [pc EXCEPT ![p] = "failed"]
     /\ UNCHANGED <<dataVersion, call, result, overlap>>

\* The response has been delivered; the handler is free again.
Finish(p) ==
  /\ pc[p] \in {"returned", "failed"}
  /\ pc' = [pc EXCEPT ![p] = "idle"]
  /\ call' = [call EXCEPT ![p] = NoCall]
  /\ result' = [result EXCEPT ![p] = NoValue]
  /\ src' = [src EXCEPT ![p] = "none"]
  /\ computes' = [computes EXCEPT ![p] = 0]
  /\ overlap' = [q \in Procs |-> IF q = p THEN {} ELSE overlap[q] \ {p}]
  /\ UNCHANGED <<dataVersion, store, lock, last>>

CacheNext ==
  /\ \/ Ingest
     \/ \E p \in Procs, k \in Keys : FetchOnMount(p, k)
     \/ \E p \in Procs, k \in Keys : RefreshClick(p, k)
     \/ \E p \in Procs : Lookup(p)
     \/ \E p \in Procs : ComputeOk(p)
     \/ \E p \in Procs : ComputeFail(p)
     \/ \E p \in Procs : Finish(p)
  /\ UNCHANGED segVars
  /\ UNCHANGED insVars
  /\ UNCHANGED aggVars
  /\ UNCHANGED chartVars
  /\ UNCHANGED outlierVars
  /\ UNCHANGED tableVars
  /\ UNCHANGED appVars
  /\ UNCHANGED procVars
  /\ UNCHANGED fuVars
  /\ UNCHANGED upVars

(***************************************************************************)
(* Aggregator: aggregate(records, group_field, value_field, function)      *)
(***************************************************************************)
\* A record without group_field.
MissingGroup == ""

\* The sentinel key of records without group_field.
Unknown == "Unknown"

GroupValues == {MissingGroup, "A", "B"}
RecordValues == {Absent, 50, 100}
Records == [vendor : GroupValues, total : RecordValues]

\* Variant: the missing group_field is used as the key as it is.
GroupKeyRaw(r) == r.vendor

\* The group a record is collected under.
GroupKey(r) == IF r.vendor = MissingGroup THEN Unknown ELSE r.vendor

GroupKeys(records) == {GroupKey(records[i]) : i \in 1..Len(records)}

\* The records of group g, in insertion order.
GroupMembers(records, g) == SelectSeq(records, LAMBDA r : GroupKey(r) = g)

\* A missing value contributes 0 to the sum and is not a valid value.
RECURSIVE SumValues(_)
SumValues(rs) ==
  IF rs = <<>> THEN 0
  ELSE (IF rs[1].total = Absent THEN 0 ELSE rs[1].total) + SumValues(Tail(rs))

ValidCount(rs) == Len(SelectSeq(rs, LAMBDA r : r.total # Absent))

Aggregate(records) ==
  [g \in GroupKeys(records) |->
     [ count |-> Len(GroupMembers(records, g)),
       sum   |-> SumValues(GroupMembers(records, g)),
       valid |-> ValidCount(GroupMembers(records, g)) ]]

AggIdle ==
  /\ aggRecords = <<>>
  /\ aggPc = "idle"
  /\ aggResult = Aggregate(<<>>)

AggInit ==
  /\ aggRecords \in SeqsUpTo(Records, MaxRecords)
  /\ aggPc = "start"
  /\ aggResult = Aggregate(<<>>)

\* aggregate(records, "vendor", "total", function)
AggregateCall ==
  /\ aggPc = "start"
  /\ aggResult' = Aggregate(aggRecords)
  /\ aggPc' = "done"
  /\ UNCHANGED aggRecords

AggNext ==
  /\ AggregateCall
  /\ UNCHANGED segVars
  /\ UNCHANGED insVars
  /\ UNCHANGED cacheVars
  /\ UNCHANGED chartVars
  /\ UNCHANGED outlierVars
  /\ UNCHANGED tableVars
  /\ UNCHANGED appVars
  /\ UNCHANGED procVars
  /\ UNCHANGED fuVars
  /\ UNCHANGED upVars

(***************************************************************************)
(* EnhancedTimeSeriesChart: fetchData over /api/analytics/time-series and  *)
(* /api/analytics/forecast                                                 *)
(***************************************************************************)
\* The window parameter of the time-series request.
WINDOW == 7

\* Bucket sums and counts the server has for one calendar period.
Totals == {0, 1, 3}
Counts == {1, 2}
Buckets == [total : Totals, count : Counts]

\* How a request can end: a 2xx answer with the payload, a 2xx answer whose
\* body carries "error", or an error status, on which axios rejects.
Outcomes == {"ok", "error_body", "rejected"}

\* The items of the metric selector.
Metrics == {"amount", "count", "average"}

NoError == "none"
LoadError == "Failed to load time series data"
NoTrend == "none"

\* null
Null == [num |-> 0, den |-> 0]

RECURSIVE SumTotals(_, _, _)
SumTotals(buckets, lo, hi) ==
  IF lo > hi THEN 0 ELSE buckets[lo].total + SumTotals(buckets, lo + 1, hi)

\* Trailing simple moving average of bucket i, as the fraction num / den,
\* over the buckets that exist.
MovingAvg(buckets, i) ==
  LET lo == Max2(1, i - WINDOW + 1)
  IN [num |-> SumTotals(buckets, lo, i), den |-> i - lo + 1]

\* time_series of the response, in date order.
TimeSeriesOf(buckets) ==
  [i \in 1..Len(buckets) |->
     [date |-> i, total |-> buckets[i].total, count |-> buckets[i].count,
      moving_avg |-> MovingAvg(buckets, i)]]

Reverse(s) == [i \in 1..Len(s) |-> s[Len(s) + 1 - i]]

Response(buckets, desc) ==
  IF desc THEN Reverse(TimeSeriesOf(buckets)) ELSE TimeSeriesOf(buckets)

\* forecast requires at least 2 points of the series.
ForecastFails(buckets) == Len(buckets) < 2

\* x || null for a number x: 0 is falsy.
OrNull(x) == IF x.num = 0 THEN Null ELSE x

MapItem(item, metric) ==
  [period     |-> item.date,
   value      |-> IF metric = "amount" THEN item.total ELSE item.count,
   moving_avg |-> OrNull(item.moving_avg)]

\* Array.prototype.sort with (a, b) => a.period.localeCompare(b.period):
\* a stable sort, ascending by period.
RECURSIVE InsertByPeriod(_, _)
InsertByPeriod(sorted, x) ==
  IF sorted = <<>> THEN <<x>>
  ELSE IF sorted[Len(sorted)].period <= x.period THEN Append(sorted, x)
  ELSE Append(InsertByPeriod(SubSeq(sorted, 1, Len(sorted) - 1), x), sorted[Len(sorted)])

RECURSIVE SortByPeriod(_)
SortByPeriod(s) ==
  IF s = <<>> THEN <<>>
  ELSE InsertByPeriod(SortByPeriod(SubSeq(s, 1, Len(s) - 1)), s[Len(s)])

TimeSeriesArray(resp, metric) ==
  SortByPeriod([i \in 1..Len(resp) |-> MapItem(resp[i], metric)])

\* The simple trend analysis: last value against first value.
TrendOf(arr) ==
  LET firstValue == arr[1].value
      lastValue  == arr[Len(arr)].value
  IN IF lastValue > firstValue THEN "increasing"
     ELSE IF lastValue < firstValue THEN "decreasing"
     ELSE "stable"

\* The data of the "Moving Average" dataset of the chart.
ChartMovingAvg(data) == [i \in 1..Len(data) |-> OrNull(data[i].moving_avg)]

ChartIdle ==
  /\ tsBuckets = <<>>
  /\ tsDesc = FALSE
  /\ tsOutcome = "ok"
  /\ fcOutcome = "rejected"
  /\ selectedMetric = "amount"
  /\ tsPc = "idle"
  /\ tsLoading = TRUE
  /\ tsError = NoError
  /\ timeSeriesData = <<>>
  /\ trendAnalysis = NoTrend

\* The component after mounting, and what the server will answer.
ChartInit ==
  /\ tsBuckets \in SeqsUpTo(Buckets, MaxBuckets)
  /\ tsDesc \in BOOLEAN
  /\ tsOutcome \in Outcomes
  /\ fcOutcome \in Outcomes
  /\ (fcOutcome = "ok") = ~ForecastFails(tsBuckets)
  /\ selectedMetric = "amount"
  /\ tsPc = "start"
  /\ tsLoading = TRUE
  /\ tsError = NoError
  /\ timeSeriesData = <<>>
  /\ trendAnalysis = NoTrend

\* fetchData up to the await: setLoading(true), setError(null).
FetchData ==
  /\ tsPc = "start"
  /\ tsLoading' = TRUE
  /\ tsError' = NoError
  /\ tsPc' = "await"
  /\ UNCHANGED <<tsBuckets, tsDesc, tsOutcome, fcOutcome, selectedMetric,
                 timeSeriesData, trendAnalysis>>

\* Promise.all rejects as soon as one of the two requests rejects: catch.
FetchRejected ==
  /\ tsPc = "await"
  /\ tsOutcome = "rejected" \/ fcOutcome = "rejected"
  /\ tsError' = LoadError
  /\ tsLoading' = FALSE
  /\ tsPc' = "done"
  /\ UNCHANGED <<tsBuckets, tsDesc, tsOutcome, fcOutcome, selectedMetric,
                 timeSeriesData, trendAnalysis>>

\* Both requests answered and the time-series body carries "error".
FetchErrorBody ==
  /\ tsPc = "await"
  /\ tsOutcome = "error_body" /\ fcOutcome # "rejected"
  /\ tsLoading' = FALSE
  /\ tsPc' = "done"
  /\ UNCHANGED <<tsBuckets, tsDesc, tsOutcome, fcOutcome, selectedMetric,
                 tsError, timeSeriesData, trendAnalysis>>

\* Both requests answered and the time series is there: map, sort,
\* setTimeSeriesData and the trend analysis.
FetchDelivered ==
  /\ tsPc = "await"
  /\ tsOutcome = "ok" /\ fcOutcome # "rejected"
  /\ LET timeSeriesArray == TimeSeriesArray(Response(tsBuckets, tsDesc), selectedMetric)
     IN /\ timeSeriesData' = timeSeriesArray
        /\ trendAnalysis' = IF Len(timeSeriesArray) >= 2 THEN TrendOf(timeSeriesArray)
                            ELSE trendAnalysis
  /\ tsLoading' = FALSE
  /\ tsPc' = "done"
  /\ UNCHANGED <<tsBuckets, tsDesc, tsOutcome, fcOutcome, selectedMetric, tsError>>

\* The metric selector: the effect depends on selectedMetric and fetches again.
SelectMetric ==
  /\ tsPc = "done"
  /\ \E m \in Metrics \ {selectedMetric} : selectedMetric' = m
  /\ tsPc' = "start"
  /\ UNCHANGED <<tsBuckets, tsDesc, tsOutcome, fcOutcome,
                 tsLoading, tsError, timeSeriesData, trendAnalysis>>

ChartNext ==
  /\ FetchData \/ FetchRejected \/ FetchErrorBody \/ FetchDelivered \/ SelectMetric
  /\ UNCHANGED segVars
  /\ UNCHANGED insVars
  /\ UNCHANGED cacheVars
  /\ UNCHANGED aggVars
  /\ UNCHANGED outlierVars
  /\ UNCHANGED tableVars
  /\ UNCHANGED appVars
  /\ UNCHANGED procVars
  /\ UNCHANGED fuVars
  /\ UNCHANGED upVars

(***************************************************************************)
(* OutlierDetectionCard: fetchOutliers over /api/analytics/outliers        *)
(***************************************************************************)
\* useState(0.05), in percent.
DEFAULT_CONTAMINATION == 5

\* Positions of the sensitivity slider, in percent.
Contaminations == {DEFAULT_CONTAMINATION, 10}

\* threshold: contamination * 20
THRESHOLD_FACTOR == 20

\* slice(0, 5)
TOP_N == 5

\* Score of a record: the magnitude of its largest per-field z-score.
Scores == {2, 3, 4}

OutlierLoadError == "Failed to load outlier data"

\* The score exceeds the threshold c / 100 * THRESHOLD_FACTOR, c in percent.
Exceeds(score, c) == score * 100 > c * THRESHOLD_FACTOR

\* The flagged records in record insertion order; a record's id is its
\* position in that order.
Flagged(scores, c) ==
  SelectSeq([i \in 1..Len(scores) |-> [id |-> i, score |-> scores[i]]],
            LAMBDA r : Exceeds(r.score, c))

\* The server's stable sort, descending by score.
RECURSIVE InsertResult(_, _)
InsertResult(sorted, x) ==
  IF sorted = <<>> THEN <<x>>
  ELSE IF sorted[Len(sorted)].score >= x.score THEN Append(sorted, x)
  ELSE Append(InsertResult(SubSeq(sorted, 1, Len(sorted) - 1), x), sorted[Len(sorted)])

RECURSIVE SortResults(_)
SortResults(s) ==
  IF s = <<>> THEN <<>>
  ELSE InsertResult(SortResults(SubSeq(s, 1, Len(s) - 1)), s[Len(s)])

\* detect_outliers(records, fields, threshold)
DetectOutliers(scores, c) == SortResults(Flagged(scores, c))

\* item.outlier_score || item.score || 0 for an item without outlier_score.
ScoreOrZero(item) == IF item.score # 0 THEN item.score ELSE 0

MapOutlier(item) == [id |-> item.id, outlier_score |-> ScoreOrZero(item)]

\* Variant: an item is placed before the items of equal score.
RECURSIVE InsertByScoreBeforeTies(_, _)
InsertByScoreBeforeTies(sorted, x) ==
  IF sorted = <<>> THEN <<x>>
  ELSE IF sorted[Len(sorted)].outlier_score > x.outlier_score THEN Append(sorted, x)
  ELSE Append(InsertByScoreBeforeTies(SubSeq(sorted, 1, Len(sorted) - 1), x), sorted[Len(sorted)])

\* Array.prototype.sort with (a, b) => b.outlier_score - a.outlier_score:
\* a stable sort, descending by outlier_score.
RECURSIVE InsertByScore(_, _)
InsertByScore(sorted, x) ==
  IF sorted = <<>> THEN <<x>>
  ELSE IF sorted[Len(sorted)].outlier_score >= x.outlier_score THEN Append(sorted, x)
  ELSE Append(InsertByScore(SubSeq(sorted, 1, Len(sorted) - 1), x), sorted[Len(sorted)])

RECURSIVE SortByScore(_)
SortByScore(s) ==
  IF s = <<>> THEN <<>>
  ELSE InsertByScore(SortByScore(SubSeq(s, 1, Len(s) - 1)), s[Len(s)])

Min2(a, b) == IF a < b THEN a ELSE b

\* .map(...).sort(...).slice(0, 5)
DetectedOutliers(outlierResults) ==
  LET sorted == SortByScore([i \in 1..Len(outlierResults) |-> MapOutlier(outlierResults[i])])
  IN SubSeq(sorted, 1, Min2(TOP_N, Len(sorted)))

OutlierIdle ==
  /\ olScores = <<>>
  /\ contamination = DEFAULT_CONTAMINATION
  /\ olOutcome = "ok"
  /\ olPc = "idle"
  /\ olLoading = TRUE
  /\ olError = NoError
  /\ outliers = <<>>

\* The card after mounting, over the records of the snapshot.
OutlierInit ==
  /\ olScores \in SeqsUpTo(Scores, MaxOutlierRecords)
  /\ contamination = DEFAULT_CONTAMINATION
  /\ olOutcome = "ok"
  /\ olPc = "start"
  /\ olLoading = TRUE
  /\ olError = NoError
  /\ outliers = <<>>

\* fetchOutliers up to the await; the request will end in one of the outcomes.
FetchOutliers ==
  /\ olPc = "start"
  /\ olLoading' = TRUE
  /\ olError' = NoError
  /\ \E o \in Outcomes : olOutcome' = o
  /\ olPc' = "await"
  /\ UNCHANGED <<olScores, contamination, outliers>>

\* The response carries a non-empty outliers array.
OutliersDelivered ==
  /\ olPc = "await"
  /\ olOutcome = "ok"
  /\ Len(DetectOutliers(olScores, contamination)) > 0
  /\ outliers' = DetectedOutliers(DetectOutliers(olScores, contamination))
  /\ olLoading' = FALSE
  /\ olPc' = "done"
  /\ UNCHANGED <<olScores, contamination, olOutcome, olError>>

\* The response carries an error or an empty array: setOutliers([]).
OutliersCleared ==
  /\ olPc = "await"
  /\ \/ olOutcome = "error_body"
     \/ olOutcome = "ok" /\ Len(DetectOutliers(olScores, contamination)) = 0
  /\ outliers' = <<>>
  /\ olLoading' = FALSE
  /\ olPc' = "done"
  /\ UNCHANGED <<olScores, contamination, olOutcome, olError>>

\* The request rejects: catch.
OutliersRejected ==
  /\ olPc = "await"
  /\ olOutcome = "rejected"
  /\ olError' = OutlierLoadError
  /\ olLoading' = FALSE
  /\ olPc' = "done"
  /\ UNCHANGED <<olScores, contamination, olOutcome, outliers>>

\* The refresh button: fetchOutliers(true).
RefreshOutliers ==
  /\ olPc = "done"
  /\ olPc' = "start"
  /\ UNCHANGED <<olScores, contamination, olOutcome, olLoading, olError, outliers>>

\* The sensitivity slider: the effect depends on contamination and fetches again.
SetContamination ==
  /\ olPc = "done"
  /\ \E c \in Contaminations \ {contamination} : contamination' = c
  /\ olPc' = "start"
  /\ UNCHANGED <<olScores, olOutcome, olLoading, olError, outliers>>

OutlierNext ==
  /\ \/ FetchOutliers
     \/ OutliersDelivered
     \/ OutliersCleared
     \/ OutliersRejected
     \/ RefreshOutliers
     \/ SetContamination
  /\ UNCHANGED segVars
  /\ UNCHANGED insVars
  /\ UNCHANGED cacheVars
  /\ UNCHANGED aggVars
  /\ UNCHANGED chartVars
  /\ UNCHANGED tableVars
  /\ UNCHANGED appVars
  /\ UNCHANGED procVars
  /\ UNCHANGED fuVars
  /\ UNCHANGED upVars

(***************************************************************************)
(* EnhancedTransactionTable: fetchTransactions, handleSearch and the       *)
(* pagination handlers                                                     *)
(***************************************************************************)
\* What the user can type into the search field.
Queries == {"", "a", "b"}

\* rowsPerPageOptions
RowsPerPageOptions == {5, 10, 25}

\* useState(10)
DEFAULT_ROWS_PER_PAGE == 10

TableLoadError == "Failed to load transactions"

\* No search has been submitted from a later page.
NoSearch == "none"

\* Transaction i of the snapshot has vendor "a" when i is odd, "b" otherwise.
VendorOf(i) == IF i % 2 = 1 THEN "a" ELSE "b"

\* The server's filter: the empty query matches every transaction.
Matches(q, i) == q = "" \/ VendorOf(i) = q

\* The ids of the transactions matching q, in snapshot order.
Matching(n, q) == SelectSeq([i \in 1..n |-> i], LAMBDA i : Matches(q, i))

\* Rows (p - 1) * limit + 1 .. p * limit of s, p counted from 1.
PageSlice(s, p, limit) ==
  SubSeq(s, (p - 1) * limit + 1, Min2(p * limit, Len(s)))

\* The response to a request: transactions and total.
TableResponse(n, req) ==
  [transactions |-> PageSlice(Matching(n, req.query), req.page, req.limit),
   total        |-> Len(Matching(n, req.query))]

\* params of fetchTransactions called in a render with page pg.
RequestOf(q, pg, limit) == [query |-> q, page |-> pg + 1, limit |-> limit]

\* The table with its pagination is rendered.
PaginationShown == ~tblLoading /\ tblError = NoError /\ Len(transactions) > 0

TableIdle ==
  /\ tblCount = 0
  /\ searchQuery = ""
  /\ page = 0
  /\ rowsPerPage = DEFAULT_ROWS_PER_PAGE
  /\ requests = {}
  /\ transactions = <<>>
  /\ tblTotal = 0
  /\ tblLoading = FALSE
  /\ tblError = NoError
  /\ searched = NoSearch

\* The component after mounting: the effect has sent the first request.
TableInit ==
  /\ tblCount \in 0..MaxTableRecords
  /\ searchQuery = ""
  /\ page = 0
  /\ rowsPerPage = DEFAULT_ROWS_PER_PAGE
  /\ requests = {RequestOf("", 0, DEFAULT_ROWS_PER_PAGE)}
  /\ transactions = <<>>
  /\ tblTotal = 0
  /\ tblLoading = TRUE
  /\ tblError = NoError
  /\ searched = NoSearch

\* onChange of the search field.
TypeQuery ==
  /\ \E q \in Queries \ {searchQuery} : searchQuery' = q
  /\ UNCHANGED <<tblCount, page, rowsPerPage, requests, transactions, tblTotal,
                 tblLoading, tblError, searched>>

\* handleSearch: setPage(0) is applied with the next render, so the
\* fetchTransactions() of the handler still sends the page of this render;
\* when the page changes, the effect then fetches once more with page 0.
HandleSearch ==
  /\ Cardinality(requests) + 2 <= MaxInFlight
  /\ requests' = requests
                   \cup {RequestOf(searchQuery, page, rowsPerPage)}
                   \cup (IF page # 0 THEN {RequestOf(searchQuery, 0, rowsPerPage)} ELSE {})
  /\ page' = 0
  /\ tblLoading' = TRUE
  /\ tblError' = NoError
  /\ searched' = IF page # 0 THEN searchQuery ELSE NoSearch
  /\ UNCHANGED <<tblCount, searchQuery, rowsPerPage, transactions, tblTotal>>

\* handleChangePage through the next or previous button, then the effect.
HandleChangePage ==
  /\ PaginationShown
  /\ Cardinality(requests) < MaxInFlight
  /\ \E newPage \in {page - 1, page + 1} :
       /\ newPage >= 0
       /\ newPage > page => (page + 1) * rowsPerPage < tblTotal
       /\ page' = newPage
       /\ requests' = requests \cup {RequestOf(searchQuery, newPage, rowsPerPage)}
  /\ tblLoading' = TRUE
  /\ tblError' = NoError
  /\ searched' = NoSearch
  /\ UNCHANGED <<tblCount, searchQuery, rowsPerPage, transactions, tblTotal>>

\* handleChangeRowsPerPage, then the effect.
HandleChangeRowsPerPage ==
  /\ PaginationShown
  /\ Cardinality(requests) < MaxInFlight
  /\ \E limit \in RowsPerPageOptions \ {rowsPerPage} :
       /\ rowsPerPage' = limit
       /\ requests' = requests \cup {RequestOf(searchQuery, 0, limit)}
  /\ page' = 0
  /\ tblLoading' = TRUE
  /\ tblError' = NoError
  /\ searched' = NoSearch
  /\ UNCHANGED <<tblCount, searchQuery, transactions, tblTotal>>

\* The refresh button: fetchTransactions(true).
RefreshTable ==
  /\ ~tblLoading
  /\ Cardinality(requests) < MaxInFlight
  /\ requests' = requests \cup {RequestOf(searchQuery, page, rowsPerPage)}
  /\ tblLoading' = TRUE
  /\ tblError' = NoError
  /\ searched' = NoSearch
  /\ UNCHANGED <<tblCount, searchQuery, page, rowsPerPage, transactions, tblTotal>>

\* A response arrives: setTransactions, setTotal, and finally
\* setLoading(false).  total || transactions.length is total, the two being
\* 0 together.
ResponseArrives ==
  /\ \E req \in requests :
       /\ requests' = requests \ {req}
       /\ transactions' = TableResponse(tblCount, req).transactions
       /\ tblTotal' = TableResponse(tblCount, req).total
  /\ tblLoading' = FALSE
  /\ UNCHANGED <<tblCount, searchQuery, page, rowsPerPage, tblError, searched>>

\* A request fails: catch, and finally setLoading(false).
RequestFails ==
  /\ \E req \in requests : requests' = requests \ {req}
  /\ tblError' = TableLoadError
  /\ tblLoading' = FALSE
  /\ UNCHANGED <<tblCount, searchQuery, page, rowsPerPage, transactions, tblTotal,
                 searched>>

TableNext ==
  /\ \/ TypeQuery
     \/ HandleSearch
     \/ HandleChangePage
     \/ HandleChangeRowsPerPage
     \/ RefreshTable
     \/ ResponseArrives
     \/ RequestFails
  /\ UNCHANGED segVars
  /\ UNCHANGED insVars
  /\ UNCHANGED cacheVars
  /\ UNCHANGED aggVars
  /\ UNCHANGED chartVars
  /\ UNCHANGED outlierVars
  /\ UNCHANGED appVars
  /\ UNCHANGED procVars
  /\ UNCHANGED fuVars
  /\ UNCHANGED upVars

(***************************************************************************)
(* App: analysisData, the sample-data request and localStorage             *)
(***************************************************************************)
\* null
NoData == [source |-> "none", version |-> 0]

\* Analysis data: saved by an earlier session, served as sample data, or
\* produced by an upload in this session.
SavedData == [source : {"saved"}, version : 1..MaxDataVersion]
SampleData == [source : {"sample"}, version : 1..MaxDataVersion]
UploadData == [source : {"upload"}, version : 1..MaxDataVersion]

\* localStorage.getItem returns null when there is no item.
NoItem == [json |-> FALSE, data |-> NoData]

\* An item that is not JSON text.
CorruptItem == [json |-> FALSE, data |-> [source |-> "corrupt", version |-> 0]]

\* JSON.stringify(analysisData)
Stringify(data) == [json |-> TRUE, data |-> data]

\* JSON.parse throws on an item that is not JSON text.
ParseThrows(item) == ~item.json

\* JSON.parse(savedData)
Parse(item) == item.data

\* The persist effect, run after a render in which analysisData is data.
Persist(data, item) == IF data # NoData THEN Stringify(data) ELSE item

AppIdle ==
  /\ appPc = "idle"
  /\ analysisData = NoData
  /\ appLoading = FALSE
  /\ storage = NoItem
  /\ savedAtStart = NoItem
  /\ uploaded = FALSE

\* Before the first render, over what an earlier session left in
\* localStorage.
AppInit ==
  /\ appPc = "start"
  /\ analysisData = NoData
  /\ appLoading = FALSE
  /\ storage \in {NoItem, CorruptItem} \cup {Stringify(d) : d \in SavedData}
  /\ savedAtStart = storage
  /\ uploaded = FALSE

\* The effects of the first render, in their order: the sample-data request
\* is sent, the persist effect finds analysisData null, the saved item is
\* parsed and set, and the persist effect of the next render stores it.
AppMount ==
  /\ appPc = "start"
  /\ appPc' = "pending"
  /\ LET savedData == storage
         loaded == IF savedData # NoItem /\ ~ParseThrows(savedData)
                   THEN Parse(savedData) ELSE NoData
     IN /\ analysisData' = loaded
        /\ storage' = Persist(loaded, storage)
  /\ UNCHANGED <<appLoading, savedAtStart, uploaded>>

\* The sample-data response is OK: setAnalysisData(data), then the persist
\* effect.
SampleDataArrives ==
  /\ appPc = "pending"
  /\ \E data \in SampleData :
       /\ analysisData' = data
       /\ storage' = Persist(data, storage)
  /\ appPc' = "settled"
  /\ UNCHANGED <<appLoading, savedAtStart, uploaded>>

\* The response is not OK, or fetch rejects.
SampleDataUnavailable ==
  /\ appPc = "pending"
  /\ appPc' = "settled"
  /\ UNCHANGED <<analysisData, appLoading, storage, savedAtStart, uploaded>>

\* Dashboard or FileUpload calls setAnalysisData with the result of an
\* upload, then the persist effect.
SetAnalysisData ==
  /\ appPc \in {"pending", "settled"}
  /\ \E data \in UploadData :
       /\ analysisData' = data
       /\ storage' = Persist(data, storage)
  /\ uploaded' = TRUE
  /\ UNCHANGED <<appPc, appLoading, savedAtStart>>

\* Dashboard or FileUpload calls setLoading.
SetLoading ==
  /\ appPc \in {"pending", "settled"}
  /\ appLoading' = ~appLoading
  /\ UNCHANGED <<appPc, analysisData, storage, savedAtStart, uploaded>>

AppNext ==
  /\ \/ AppMount
     \/ SampleDataArrives
     \/ SampleDataUnavailable
     \/ SetAnalysisData
     \/ SetLoading
  /\ UNCHANGED segVars
  /\ UNCHANGED insVars
  /\ UNCHANGED cacheVars
  /\ UNCHANGED aggVars
  /\ UNCHANGED chartVars
  /\ UNCHANGED outlierVars
  /\ UNCHANGED tableVars
  /\ UNCHANGED procVars
  /\ UNCHANGED fuVars
  /\ UNCHANGED upVars

(***************************************************************************)
(* ProcessSelection: handleProcessChange, handleFileUpload, removeFile,    *)
(* clear all and isAnalyzeEnabled                                          *)
(***************************************************************************)
\* The value of the placeholder option.
NoProcess == ""

ProcessIds == {"three-way-match", "excess-procurement", "inventory-cost",
               "inventory-ageing", "inventory-valuation", "profitability"}

\* businessProcesses[p].inputs
ProcessInputs(p) ==
  CASE p = "three-way-match" ->
         << [id |-> "po", type |-> "pdf", required |-> TRUE],
            [id |-> "purchase-invoice", type |-> "pdf", required |-> TRUE],
            [id |-> "grn", type |-> "pdf", required |-> TRUE] >>
    [] p = "excess-procurement" ->
         << [id |-> "po", type |-> "pdf", required |-> TRUE],
            [id |-> "purchase-invoice", type |-> "pdf", required |-> TRUE] >>
    [] p \in {"inventory-cost", "profitability"} ->
         << [id |-> "inventory-register", type |-> "excel", required |-> TRUE] >>
    [] p \in {"inventory-ageing", "inventory-valuation"} ->
         << [id |-> "inventory-workings", type |-> "excel", required |-> TRUE] >>
    [] OTHER -> << >>

\* Files the user can pick or drop: a name, the kind of the MIME type, and
\* whether the size is above 10 MB.
FileNames == {"a", "b"}
FileKinds == {"pdf", "excel", "other"}
PickedFiles == [name : FileNames, kind : FileKinds, big : BOOLEAN]

\* isValidType of the filter in handleFileUpload.
IsValidType(input, file) ==
  IF input.type = "pdf" THEN file.kind = "pdf" ELSE file.kind = "excel"

ValidFiles(input, files) ==
  SelectSeq(files, LAMBDA file : IsValidType(input, file) /\ ~file.big)

\* newFiles; the id of a file is unique.  process records the process
\* selected at the upload (not a field of the code's object).
NewFiles(inputId, validFiles, firstId, process) ==
  [i \in 1..Len(validFiles) |->
     [inputId |-> inputId, name |-> validFiles[i].name, type |-> validFiles[i].kind,
      id |-> firstId + i - 1, process |-> process]]

\* The updater passed to setUploadedFiles.
AddFiles(prev, inputId, newFiles) ==
  LET existingFiles == SelectSeq(prev, LAMBDA f : f.inputId = inputId)
      otherFiles == SelectSeq(prev, LAMBDA f : f.inputId # inputId)
      filteredNewFiles ==
        SelectSeq(newFiles,
                  LAMBDA newFile :
                    ~\E e \in 1..Len(existingFiles) : existingFiles[e].name = newFile.name)
  IN otherFiles \o existingFiles \o filteredNewFiles

isAnalyzeEnabled(process, files) ==
  /\ process # NoProcess
  /\ \A i \in 1..Len(ProcessInputs(process)) :
       ProcessInputs(process)[i].required =>
         \E j \in 1..Len(files) : files[j].inputId = ProcessInputs(process)[i].id

ProcIdle ==
  /\ selectedProcess = NoProcess
  /\ uploadedFiles = <<>>
  /\ isProcessing = FALSE
  /\ nextFileId = 0

ProcInit ==
  /\ selectedProcess = NoProcess
  /\ uploadedFiles = <<>>
  /\ isProcessing = FALSE
  /\ nextFileId = 1

\* Variant: the files of the earlier process are kept.
HandleProcessChangeKeepingFiles ==
  /\ ~isProcessing
  /\ \E processId \in (ProcessIds \cup {NoProcess}) \ {selectedProcess} :
       selectedProcess' = processId
  /\ UNCHANGED <<uploadedFiles, isProcessing, nextFileId>>

\* handleProcessChange(processId) from the select.
HandleProcessChange ==
  /\ ~isProcessing
  /\ \E processId \in (ProcessIds \cup {NoProcess}) \ {selectedProcess} :
       selectedProcess' = processId
  /\ uploadedFiles' = <<>>
  /\ UNCHANGED <<isProcessing, nextFileId>>

\* handleFileUpload(inputId, files) from the drop area or the file dialog of
\* one of the inputs of the selected process.
HandleFileUpload ==
  /\ ~isProcessing
  /\ \E i \in 1..Len(ProcessInputs(selectedProcess)) :
     \E files \in SeqsUpTo(PickedFiles, MaxBatch) :
       LET input == ProcessInputs(selectedProcess)[i]
           validFiles == ValidFiles(input, files)
       IN /\ Len(files) > 0
          /\ nextFileId + Len(validFiles) <= MaxFileIds + 1
          /\ uploadedFiles' =
               IF Len(validFiles) = 0 THEN uploadedFiles
               ELSE AddFiles(uploadedFiles, input.id,
                             NewFiles(input.id, validFiles, nextFileId, selectedProcess))
          /\ nextFileId' = nextFileId + Len(validFiles)
  /\ UNCHANGED <<selectedProcess, isProcessing>>

\* removeFile(fileId) from the list of an input.
RemoveFile ==
  /\ ~isProcessing
  /\ \E j \in 1..Len(uploadedFiles) :
       uploadedFiles' = SelectSeq(uploadedFiles, LAMBDA f : f.id # uploadedFiles[j].id)
  /\ UNCHANGED <<selectedProcess, isProcessing, nextFileId>>

\* The "Clear All Files" button.
ClearAllFiles ==
  /\ ~isProcessing
  /\ selectedProcess # NoProcess
  /\ Len(uploadedFiles) > 0
  /\ uploadedFiles' = <<>>
  /\ UNCHANGED <<selectedProcess, isProcessing, nextFileId>>

\* handleAnalyze: the component shows the processing screen.
HandleAnalyze ==
  /\ ~isProcessing
  /\ isAnalyzeEnabled(selectedProcess, uploadedFiles)
  /\ isProcessing' = TRUE
  /\ UNCHANGED <<selectedProcess, uploadedFiles, nextFileId>>

\* onFileUpload rejects: catch, setIsProcessing(false).
AnalyzeFails ==
  /\ isProcessing
  /\ isProcessing' = FALSE
  /\ UNCHANGED <<selectedProcess, uploadedFiles, nextFileId>>

ProcNext ==
  /\ \/ HandleProcessChange
     \/ HandleFileUpload
     \/ RemoveFile
     \/ ClearAllFiles
     \/ HandleAnalyze
     \/ AnalyzeFails
  /\ UNCHANGED segVars
  /\ UNCHANGED insVars
  /\ UNCHANGED cacheVars
  /\ UNCHANGED aggVars
  /\ UNCHANGED chartVars
  /\ UNCHANGED outlierVars
  /\ UNCHANGED tableVars
  /\ UNCHANGED appVars
  /\ UNCHANGED fuVars
  /\ UNCHANGED upVars

(***************************************************************************)
(* FileUploader: handleFileSelect, handleRemoveFile and uploadFiles        *)
(***************************************************************************)
SupportedExtensions == {".xlsx", ".xls", ".csv", ".pdf"}

\* Files the user can select: a name and the extension as written.
UploadNames == {"a"}
UploadExts == {".pdf", ".PDF", ".exe"}
SelectableFiles == [name : UploadNames, ext : UploadExts]

\* '.' + file.name.split('.').pop().toLowerCase()
LowerExt(ext) == IF ext = ".PDF" THEN ".pdf" ELSE ext

IsSupported(file) == LowerExt(file.ext) \in SupportedExtensions

\* Parts of the request body sent so far, out of UPLOAD_PARTS.
UPLOAD_PARTS == 2

\* Math.round((progressEvent.loaded * 50) / progressEvent.total)
ProgressOf(loaded, total) == (2 * loaded * 50 + total) \div (2 * total)

PROGRESS_DONE == 100

NoStatus == "none"
SkippedError == "file(s) were skipped because they are not supported"
UploadError == "Failed to upload files. Please try again."
ServerMessage == "err.response.data.message"

FuIdle ==
  /\ selectedFiles = <<>>
  /\ uploading = FALSE
  /\ uploadProgress = 0
  /\ fuStatus = NoStatus
  /\ processedFiles = <<>>
  /\ fuError = NoError
  /\ fuPc = "unmounted"
  /\ completeCalls = 0
  /\ lastOutcome = "none"
  /\ filesAtStart = <<>>
  /\ callsAtStart = 0
  /\ progressAtFailure = 0

FuInit ==
  /\ selectedFiles = <<>>
  /\ uploading = FALSE
  /\ uploadProgress = 0
  /\ fuStatus = NoStatus
  /\ processedFiles = <<>>
  /\ fuError = NoError
  /\ fuPc = "idle"
  /\ completeCalls = 0
  /\ lastOutcome = "none"
  /\ filesAtStart = <<>>
  /\ callsAtStart = 0
  /\ progressAtFailure = 0

\* handleFileSelect(event)
HandleFileSelect ==
  /\ fuPc = "idle"
  /\ ~uploading
  /\ \E files \in SeqsUpTo(SelectableFiles, MaxSelected) :
       LET filteredFiles == SelectSeq(files, IsSupported)
       IN /\ Len(files) > 0
          /\ Len(selectedFiles) + Len(filteredFiles) <= MaxSelected
          /\ fuError' = IF Len(filteredFiles) < Len(files) THEN SkippedError ELSE fuError
          /\ selectedFiles' = selectedFiles \o filteredFiles
  /\ lastOutcome' = "none"
  /\ UNCHANGED <<uploading, uploadProgress, fuStatus, processedFiles, fuPc, completeCalls,
                 filesAtStart, callsAtStart, progressAtFailure>>

\* handleRemoveFile(index)
HandleRemoveFile ==
  /\ fuPc = "idle"
  /\ ~uploading
  /\ \E index \in 1..Len(selectedFiles) :
       selectedFiles' = [i \in 1..(Len(selectedFiles) - 1) |->
                           IF i < index THEN selectedFiles[i] ELSE selectedFiles[i + 1]]
  /\ lastOutcome' = "none"
  /\ UNCHANGED <<uploading, uploadProgress, fuStatus, processedFiles, fuError, fuPc,
                 completeCalls, filesAtStart, callsAtStart, progressAtFailure>>

\* uploadFiles up to the first await; the button is disabled without files.
UploadFiles ==
  /\ fuPc = "idle"
  /\ ~uploading
  /\ Len(selectedFiles) > 0
  /\ completeCalls < MaxCompleted
  /\ uploading' = TRUE
  /\ uploadProgress' = 0
  /\ fuError' = NoError
  /\ fuStatus' = "Uploading files..."
  /\ fuPc' = "upload"
  /\ lastOutcome' = "none"
  /\ filesAtStart' = selectedFiles
  /\ callsAtStart' = completeCalls
  /\ UNCHANGED <<selectedFiles, processedFiles, completeCalls, progressAtFailure>>

\* onUploadProgress
UploadProgressEvent ==
  /\ fuPc = "upload"
  /\ \E loaded \in 1..UPLOAD_PARTS :
       /\ ProgressOf(loaded, UPLOAD_PARTS) > uploadProgress
       /\ uploadProgress' = ProgressOf(loaded, UPLOAD_PARTS)
  /\ UNCHANGED <<selectedFiles, uploading, fuStatus, processedFiles, fuError, fuPc,
                 completeCalls, lastOutcome, filesAtStart, callsAtStart, progressAtFailure>>

\* The upload request is answered.
UploadAnswered ==
  /\ fuPc = "upload"
  /\ fuStatus' = "Processing files..."
  /\ fuPc' = "process"
  /\ UNCHANGED <<selectedFiles, uploading, uploadProgress, processedFiles, fuError,
                 completeCalls, lastOutcome, filesAtStart, callsAtStart, progressAtFailure>>

\* Variant: the catch leaves uploadProgress as it is.
UploadRequestFailsKeepingProgress ==
  /\ fuPc \in {"upload", "process"}
  /\ \E message \in {ServerMessage, UploadError} : fuError' = message
  /\ fuStatus' = "Upload failed"
  /\ uploading' = FALSE
  /\ fuPc' = "idle"
  /\ lastOutcome' = IF fuPc = "upload" THEN "upload_failed" ELSE "process_failed"
  /\ progressAtFailure' = uploadProgress
  /\ UNCHANGED <<selectedFiles, uploadProgress, processedFiles, completeCalls, filesAtStart,
                 callsAtStart>>

\* The upload request or the processing request rejects: catch and finally.
UploadRequestFails ==
  /\ fuPc \in {"upload", "process"}
  /\ \E message \in {ServerMessage, UploadError} : fuError' = message
  /\ uploadProgress' = 0
  /\ fuStatus' = "Upload failed"
  /\ uploading' = FALSE
  /\ fuPc' = "idle"
  /\ lastOutcome' = IF fuPc = "upload" THEN "upload_failed" ELSE "process_failed"
  /\ progressAtFailure' = uploadProgress
  /\ UNCHANGED <<selectedFiles, processedFiles, completeCalls, filesAtStart, callsAtStart>>

\* The processing request is answered: the rest of the try block and finally.
ProcessAnswered ==
  /\ fuPc = "process"
  /\ processedFiles' = selectedFiles
  /\ uploadProgress' = PROGRESS_DONE
  /\ fuStatus' = "Files processed successfully!"
  /\ completeCalls' = completeCalls + 1
  /\ selectedFiles' = <<>>
  /\ uploading' = FALSE
  /\ fuPc' = "idle"
  /\ lastOutcome' = "ok"
  /\ UNCHANGED <<fuError, filesAtStart, callsAtStart, progressAtFailure>>

FuNext ==
  /\ \/ HandleFileSelect
     \/ HandleRemoveFile
     \/ UploadFiles
     \/ UploadProgressEvent
     \/ UploadAnswered
     \/ UploadRequestFails
     \/ ProcessAnswered
  /\ UNCHANGED segVars
  /\ UNCHANGED insVars
  /\ UNCHANGED cacheVars
  /\ UNCHANGED aggVars
  /\ UNCHANGED chartVars
  /\ UNCHANGED outlierVars
  /\ UNCHANGED tableVars
  /\ UNCHANGED appVars
  /\ UNCHANGED procVars
  /\ UNCHANGED upVars

(***************************************************************************)
(* FileUpload: handleProcessFileUpload and handleFiles                     *)
(***************************************************************************)
\* Processes the child ProcessSelection can hand over.
UploadProcessIds == {"three-way-match", "profitability"}

\* A request of handleFiles carries no process.
LegacyUpload == NoProcess

\* What setAnalysisData received last: nothing yet, the server's result, or
\* generateProcessSampleData(processId) / generateSampleData().
NoAnalysis == [source |-> "none", process |-> NoProcess]
ServerResult(p) == [source |-> "server", process |-> p]
GeneratedSample(p) == [source |-> "sample", process |-> p]

UpIdle ==
  /\ dragActive = FALSE
  /\ uploadStatus = NoStatus
  /\ upProcess = NoProcess
  /\ showLegacyUpload = FALSE
  /\ upLoading = FALSE
  /\ upData = NoAnalysis
  /\ upRequests = <<>>
  /\ pendingTimers = 0
  /\ okResponses = 0
  /\ upStarted = -1
  /\ processHandedOver = FALSE

UpInit ==
  /\ dragActive = FALSE
  /\ uploadStatus = NoStatus
  /\ upProcess = NoProcess
  /\ showLegacyUpload = FALSE
  /\ upLoading = FALSE
  /\ upData = NoAnalysis
  /\ upRequests = <<>>
  /\ pendingTimers = 0
  /\ okResponses = 0
  /\ upStarted = 0
  /\ processHandedOver = FALSE

\* handleDrag(e) on the legacy upload area
HandleDrag ==
  /\ showLegacyUpload
  /\ \E type \in {"dragenter", "dragover", "dragleave"} :
       dragActive' = IF type \in {"dragenter", "dragover"} THEN TRUE
                     ELSE FALSE
  /\ UNCHANGED <<uploadStatus, upProcess, showLegacyUpload, upLoading, upData,
                 upRequests, pendingTimers, okResponses, upStarted,
                 processHandedOver>>

\* handleProcessSelection(process)
HandleProcessSelection ==
  /\ ~processHandedOver
  /\ \E p \in UploadProcessIds : upProcess' = p
  /\ UNCHANGED <<dragActive, uploadStatus, showLegacyUpload, upLoading, upData,
                 upRequests, pendingTimers, okResponses, upStarted,
                 processHandedOver>>

\* onClick of the legacy button: setShowLegacyUpload(!showLegacyUpload)
ToggleLegacyUpload ==
  /\ showLegacyUpload' = ~showLegacyUpload
  /\ UNCHANGED <<dragActive, uploadStatus, upProcess, upLoading, upData,
                 upRequests, pendingTimers, okResponses, upStarted,
                 processHandedOver>>

\* setLoading(true); setUploadStatus('processing'); fetch(...)
StartUpload(p) ==
  /\ upStarted < MaxUploads
  /\ upStarted' = upStarted + 1
  /\ upLoading' = TRUE
  /\ uploadStatus' = "processing"
  /\ upRequests' = Append(upRequests, p)

\* handleProcessFileUpload(filesData), called by ProcessSelection's
\* handleAnalyze, which shows its loading screen from then on.
HandleProcessFileUpload ==
  /\ upProcess # NoProcess
  /\ ~processHandedOver
  /\ processHandedOver' = TRUE
  /\ StartUpload(upProcess)
  /\ UNCHANGED <<dragActive, upProcess, showLegacyUpload, upData,
                 pendingTimers, okResponses>>

\* handleFiles(files), from handleDrop or handleFileInput
HandleFiles ==
  /\ showLegacyUpload
  /\ StartUpload(LegacyUpload)
  /\ dragActive' = FALSE
  /\ UNCHANGED <<upProcess, showLegacyUpload, upData, pendingTimers,
                 okResponses, processHandedOver>>

RemoveRequest(i) == SubSeq(upRequests, 1, i - 1) \o SubSeq(upRequests, i + 1, Len(upRequests))

\* response.ok and response.json() resolves: setAnalysisData(result);
\* setUploadStatus('success'); finally setLoading(false).
UploadResponseOk ==
  \E i \in 1..Len(upRequests) :
    /\ upRequests' = RemoveRequest(i)
    /\ upData' = ServerResult(upRequests[i])
    /\ uploadStatus' = "success"
    /\ upLoading' = FALSE
    /\ okResponses' = okResponses + 1
    /\ UNCHANGED <<dragActive, upProcess, showLegacyUpload, pendingTimers,
                   upStarted, processHandedOver>>

\* The catch block: setUploadStatus('error'); setAnalysisData(sample data);
\* setTimeout(() => setUploadStatus('success'), 1000); finally
\* setLoading(false).
UploadCatch(i) ==
  /\ upRequests' = RemoveRequest(i)
  /\ uploadStatus' = "error"
  /\ upData' = GeneratedSample(upRequests[i])
  /\ pendingTimers' = pendingTimers + 1
  /\ upLoading' = FALSE

\* The server answers with a status that is not OK: throw new Error(...).
UploadResponseNotOk ==
  \E i \in 1..Len(upRequests) :
    /\ UploadCatch(i)
    /\ UNCHANGED <<dragActive, upProcess, showLegacyUpload, okResponses,
                   upStarted, processHandedOver>>

\* fetch rejects: no answer from the server.
UploadFetchRejects ==
  \E i \in 1..Len(upRequests) :
    /\ UploadCatch(i)
    /\ UNCHANGED <<dragActive, upProcess, showLegacyUpload, okResponses,
                   upStarted, processHandedOver>>

\* The callback of setTimeout in the catch block runs.
FallbackTimerFires ==
  /\ pendingTimers > 0
  /\ pendingTimers' = pendingTimers - 1
  /\ uploadStatus' = "success"
  /\ UNCHANGED <<dragActive, upProcess, showLegacyUpload, upLoading, upData,
                 upRequests, okResponses, upStarted, processHandedOver>>

UpNext ==
  \/ HandleDrag
  \/ HandleProcessSelection
  \/ ToggleLegacyUpload
  \/ HandleProcessFileUpload
  \/ HandleFiles
  \/ UploadResponseOk
  \/ UploadResponseNotOk
  \/ UploadFetchRejects
  \/ FallbackTimerFires
  /\ UNCHANGED segVars
  /\ UNCHANGED insVars
  /\ UNCHANGED cacheVars
  /\ UNCHANGED aggVars
  /\ UNCHANGED chartVars
  /\ UNCHANGED outlierVars
  /\ UNCHANGED tableVars
  /\ UNCHANGED appVars
  /\ UNCHANGED procVars
  /\ UNCHANGED fuVars

\* A segmentation call on its own.
ClusterInit == SegInit /\ InsIdle /\ CacheIdle /\ AggIdle /\ ChartIdle /\ OutlierIdle /\ TableIdle /\ AppIdle /\ ProcIdle /\ FuIdle /\ UpIdle

SpecCluster == ClusterInit /\ [][SegNext]_vars

\* A segmentation call on a short vendor list.
SegInitShort ==
  /\ SegInit
  /\ Len(segData) <= MaxFairVendors

ClusterInitShort == SegInitShort /\ InsIdle /\ CacheIdle /\ AggIdle /\ ChartIdle /\ OutlierIdle /\ TableIdle /\ AppIdle /\ ProcIdle /\ FuIdle /\ UpIdle

\* Under weak fairness: the call keeps running, and Math.random() does not
\* return used indices forever.
SpecClusterFair == ClusterInitShort /\ [][SegNext]_vars /\ WF_vars(SegNext)

\* An insights scan on its own.
InsightsInit == InsInit /\ SegIdle /\ CacheIdle /\ AggIdle /\ ChartIdle /\ OutlierIdle /\ TableIdle /\ AppIdle /\ ProcIdle /\ FuIdle /\ UpIdle

SpecInsights == InsightsInit /\ [][InsNext]_vars

\* The cache under concurrent requests and ingestions.
CacheInit == CacheIdle /\ SegIdle /\ InsIdle /\ AggIdle /\ ChartIdle /\ OutlierIdle /\ TableIdle /\ AppIdle /\ ProcIdle /\ FuIdle /\ UpIdle

SpecCache == CacheInit /\ [][CacheNext]_vars

\* An aggregation on its own.
AggregatorInit == AggInit /\ SegIdle /\ InsIdle /\ CacheIdle /\ ChartIdle /\ OutlierIdle /\ TableIdle /\ AppIdle /\ ProcIdle /\ FuIdle /\ UpIdle

SpecAggregator == AggregatorInit /\ [][AggNext]_vars

\* The time-series chart on its own.
TimeSeriesInit == ChartInit /\ SegIdle /\ InsIdle /\ CacheIdle /\ AggIdle /\ OutlierIdle /\ TableIdle /\ AppIdle /\ ProcIdle /\ FuIdle /\ UpIdle

SpecTimeSeries == TimeSeriesInit /\ [][ChartNext]_vars

\* The outlier card on its own.
OutlierCardInit == OutlierInit /\ SegIdle /\ InsIdle /\ CacheIdle /\ AggIdle /\ ChartIdle /\ TableIdle /\ AppIdle /\ ProcIdle /\ FuIdle /\ UpIdle

SpecOutlierCard == OutlierCardInit /\ [][OutlierNext]_vars

\* The transaction table on its own.
TransactionTableInit == TableInit /\ SegIdle /\ InsIdle /\ CacheIdle /\ AggIdle /\ ChartIdle /\ OutlierIdle /\ AppIdle /\ ProcIdle /\ FuIdle /\ UpIdle

SpecTransactionTable == TransactionTableInit /\ [][TableNext]_vars

\* The router App on its own.
AppStartInit == AppInit /\ SegIdle /\ InsIdle /\ CacheIdle /\ AggIdle /\ ChartIdle /\ OutlierIdle /\ TableIdle /\ ProcIdle /\ FuIdle /\ UpIdle

SpecApp == AppStartInit /\ [][AppNext]_vars

\* ProcessSelection on its own.
ProcessSelectionInit == ProcInit /\ SegIdle /\ InsIdle /\ CacheIdle /\ AggIdle /\ ChartIdle /\ OutlierIdle /\ TableIdle /\ AppIdle /\ FuIdle /\ UpIdle

SpecProcessSelection == ProcessSelectionInit /\ [][ProcNext]_vars

\* FileUploader on its own.
FileUploaderInit == FuInit /\ SegIdle /\ InsIdle /\ CacheIdle /\ AggIdle /\ ChartIdle /\ OutlierIdle /\ TableIdle /\ AppIdle /\ ProcIdle /\ UpIdle

SpecFileUploader == FileUploaderInit /\ [][FuNext]_vars

\* FileUpload on its own.
FileUploadInit == UpInit /\ SegIdle /\ InsIdle /\ CacheIdle /\ AggIdle /\ ChartIdle /\ OutlierIdle /\ TableIdle /\ AppIdle /\ ProcIdle /\ FuIdle

SpecFileUpload == FileUploadInit /\ [][UpNext]_vars

\* A segmentation call and an insights scan side by side, on snapshots of
\* at most a few records.
SnapshotInit ==
  /\ SegInit
  /\ Len(segData) <= MaxSnapshotVendors
  /\ InsInit
  /\ Len(insData) <= MaxSnapshotTransactions
  /\ CacheIdle
  /\ AggIdle
  /\ ChartIdle
  /\ OutlierIdle
  /\ TableIdle
  /\ AppIdle
  /\ ProcIdle
  /\ FuIdle
  /\ UpIdle

SnapshotNext == SegNext \/ InsNext

SpecSnapshot == SnapshotInit /\ [][SnapshotNext]_vars

(***************************************************************************)
(* Properties of performSegmentation                                       *)
(***************************************************************************)
\* The (cluster, position) slots of the clusters array that hold vendor i.
SlotsOf(i) ==
  {sl \in {<<c, m>> : c \in 1..Len(clusters), m \in 1..MaxVendors + 1} :
     /\ sl[2] <= Len(clusters[sl[1]])
     /\ clusters[sl[1]][sl[2]].idx = i}

KInRange == 1 <= segK /\ segK <= Len(segData)

\* C1: for 1 <= k <= number of entities the call does not throw, every
\* assignment puts each entity into exactly one of k clusters with
\* 0 <= cluster_id < k, and the result has exactly k centroids carrying the
\* cluster ids 0..k-1 (clusters of size zero included).
C1_KCentroidsEveryEntityOnce ==
  KInRange =>
    /\ segPc # "error"
    /\ segPc \in {"update", "done"} =>
         /\ Len(clusters) = segK
         /\ \A i \in 1..Len(vendors) :
              /\ Cardinality(SlotsOf(i)) = 1
              /\ \A sl \in SlotsOf(i) :
                   /\ clusters[sl[1]][sl[2]].cluster_id = sl[1] - 1
                   /\ clusters[sl[1]][sl[2]].cluster_id \in 0..(segK - 1)
    /\ segPc = "done" =>
         /\ Len(segResult.clusters) = segK
         /\ \A c \in 1..segK : segResult.clusters[c].cluster_id = c - 1
         /\ Len(segResult.cluster_stats) = segK
         /\ \A c \in 1..segK : segResult.cluster_stats[c].size = Len(clusters[c])

\* A finished call with 2 <= k <= n that has an empty cluster and a vendor
\* whose unit_price is NaN.
C1_Witness ==
  /\ segPc = "done"
  /\ KInRange
  /\ segK >= 2
  /\ \E c \in 1..Len(segResult.cluster_stats) : segResult.cluster_stats[c].size = 0
  /\ \E i \in 1..Len(vendors) : vendors[i].nan

Terminated == segPc \in {"done", "error"}

\* Every vendor is in exactly one slot of the clusters array.
EveryEntityOnce == \A i \in 1..Len(vendors) : Cardinality(SlotsOf(i)) = 1

\* C11: with k greater than the number n >= 1 of entities the call
\* completes without error and returns exactly n centroids, every entity
\* assigned exactly once.
C11_KClampedToEntityCount ==
  (Len(segData) >= 1 /\ segK > Len(segData)) =>
     /\ segPc # "error"
     /\ segPc = "done" =>
          /\ Len(segResult.clusters) = Len(segData)
          /\ EveryEntityOnce

\* C12: a call with k <= 0 fails with InvalidArgumentError and returns no
\* centers and no assignments.
C12_NonPositiveKRejected ==
  (segK <= 0 /\ Terminated) =>
     /\ segPc = "error"
     /\ segError = "InvalidArgumentError"
     /\ segResult = EmptyResult

\* The whole call as a function of the data, the drawn indices and k.
RECURSIVE Iterate(_, _, _, _, _)
Iterate(vs, cs, cl, kk, i) ==
  IF i = MAX_ITERATIONS
  THEN [ok |-> TRUE, result |-> FormatResult(vs, cs, cl), assignments |-> cl]
  ELSE IF AssignThrows(vs, cs, kk)
       THEN [ok |-> FALSE, result |-> EmptyResult, assignments |-> cl]
       ELSE Iterate(vs, updateCentroids(vs, cs, assignToClusters(vs, cs, kk)),
                    assignToClusters(vs, cs, kk), kk, i + 1)

Outcome(data, picks, kk) ==
  IF Len(data) = 0
  THEN [ok |-> TRUE, result |-> EmptyResult, assignments |-> <<>>]
  ELSE LET vs == [i \in 1..Len(data) |-> ExtractFeatures(data[i])]
       IN Iterate(vs, [j \in 1..Len(picks) |-> CentroidOf(vs[picks[j]])], <<>>, kk, 0)

ActualOutcome ==
  [ok |-> segPc = "done", result |-> segResult, assignments |-> clusters]

\* Two outcomes are the same for the caller: both throw, or both return the
\* same centers, statistics and assignments.
SameOutcome(a, b) ==
  /\ a.ok = b.ok
  /\ a.ok => (a.result = b.result /\ a.assignments = b.assignments)

\* The draw 0, 1, 2, ... of the picking loop.
FirstPicks(n, kk) == [j \in 1..(IF kk < n THEN kk ELSE n) |-> j]

\* C13 as stated: the outcome depends on the entities and k alone, so every
\* call returns what the call that draws the first indices returns.
C13_Original ==
  Terminated =>
    SameOutcome(ActualOutcome, Outcome(segData, FirstPicks(Len(segData), segK), segK))

\* C13 as amended: the outcome depends on the entities, k and the indices
\* drawn for the initial centroids, and on nothing else.
C13_DeterminedByInputAndDraws ==
  Terminated => SameOutcome(ActualOutcome, Outcome(segData, picked, segK))

\* A finished call whose centers differ from those of the call that draws
\* the first indices.
C13_Witness ==
  /\ segPc = "done"
  /\ Len(picked) >= 2
  /\ segResult # Outcome(segData, FirstPicks(Len(segData), segK), segK).result

\* C14: the loop counter never passes MAX_ITERATIONS and every call comes
\* to an end (returns or throws).
C14_Terminates == [](iter <= MAX_ITERATIONS) /\ <>Terminated

\* A call that returned after the full MAX_ITERATIONS rounds.
C14_Witness == segPc = "done" /\ iter = MAX_ITERATIONS /\ Len(picked) >= 2

\* C22: an update step leaves every centroid whose cluster is empty where
\* it was, and removes no centroid.
C22_EmptyClusterKeepsCentroid ==
  [][(segPc = "update" /\ segPc' = "assign") =>
       /\ Len(centroids') >= Len(centroids)
       /\ \A c \in 1..Len(centroids) :
            Len(clusters[c]) = 0 => centroids'[c] = centroids[c]]_vars

\* An update step has passed over an empty cluster whose centroid exists.
C22_Witness ==
  /\ segPc = "assign"
  /\ iter >= 1
  /\ \E c \in 1..Len(centroids) :
       /\ c <= Len(clusters)
       /\ Len(clusters[c]) = 0
       /\ centroids[c] # Undefined

\* Positive constants a feature field is multiplied by.
ScaleFactors == {2, 10}

\* The feature vectors with the transaction count of every vendor
\* multiplied by f.
ScaleCount(vs, f) == [i \in 1..Len(vs) |-> [vs[i] EXCEPT !.count = f * vs[i].count]]

\* The call over the scaled feature vectors, with the same vendors drawn as
\* initial centroids.
ScaledOutcome(vs, picks, kk, f) ==
  LET scaled == ScaleCount(vs, f)
  IN Iterate(scaled, [j \in 1..Len(picks) |-> CentroidOf(scaled[picks[j]])], <<>>, kk, 0)

\* C23: multiplying the transaction count of every vendor by a positive
\* constant leaves the assignment of a returned call as it is, the same
\* vendors being drawn as initial centroids.
C23_ScalingKeepsAssignment ==
  (segPc = "done" /\ Len(vendors) > 0) =>
     \A f \in ScaleFactors :
        /\ ScaledOutcome(vendors, picked, segK, f).ok
        /\ ScaledOutcome(vendors, picked, segK, f).assignments = clusters

\* The square of the Euclidean distance between the feature vector of v
\* and the centroid c = (total/n, unit_price/n, count/n), times n * n.
SquaredDistance(v, c) ==
  (c.n * v.total - c.total) * (c.n * v.total - c.total)
  + (c.n * v.unit_price - c.unit_price) * (c.n * v.unit_price - c.unit_price)
  + (c.n * v.count - c.count) * (c.n * v.count - c.count)

\* The distance of v to c is a number (no NaN feature on either side).
HasDistance(v, c) == ~v.nan /\ ~c.nan

\* Centroid a is strictly closer to v than centroid b.
StrictlyCloser(v, a, b) ==
  /\ HasDistance(v, a)
  /\ HasDistance(v, b) => SquaredDistance(v, a) * b.n * b.n < SquaredDistance(v, b) * a.n * a.n

\* C24: after an assignment step no centroid is strictly closer to a vendor
\* than the centroid of the cluster the vendor was put in.
C24_AssignedToNearest ==
  segPc = "update" =>
     \A c \in 1..Len(clusters) : \A m \in 1..Len(clusters[c]) :
        /\ c <= Len(centroids)
        /\ \A j \in 1..Len(centroids) :
             ~StrictlyCloser(vendors[clusters[c][m].idx], centroids[j], centroids[c])

\* An assignment step has put vendors at different distances from the
\* centroids into a cluster other than the first.
C24_Witness ==
  /\ segPc = "update"
  /\ iter >= 1
  /\ \E c \in 2..Len(clusters) : \E m \in 1..Len(clusters[c]) :
       /\ HasDistance(vendors[clusters[c][m].idx], centroids[c])
       /\ StrictlyCloser(vendors[clusters[c][m].idx], centroids[c], centroids[1])

(***************************************************************************)
(* Properties of the Aggregator and of empty snapshots                     *)
(***************************************************************************)
RECURSIVE SumCounts(_, _)
SumCounts(res, keys) ==
  IF keys = {} THEN 0
  ELSE LET g == CHOOSE x \in keys : TRUE
       IN res[g].count + SumCounts(res, keys \ {g})

MissingGroupCount(records) == Len(SelectSeq(records, LAMBDA r : r.vendor = MissingGroup))

\* C15: for a non-empty record list the counts of all groups add up to the
\* number of records, and the records without group_field are counted
\* under "Unknown".
C15_CountsAddUp ==
  (aggPc = "done" /\ Len(aggRecords) > 0) =>
     /\ SumCounts(aggResult, DOMAIN aggResult) = Len(aggRecords)
     /\ MissingGroup \notin DOMAIN aggResult
     /\ MissingGroupCount(aggRecords) > 0 =>
          /\ Unknown \in DOMAIN aggResult
          /\ aggResult[Unknown].count = MissingGroupCount(aggRecords)

\* An aggregation over records with and without group_field.
C15_Witness ==
  /\ aggPc = "done"
  /\ MissingGroupCount(aggRecords) > 0
  /\ MissingGroupCount(aggRecords) < Len(aggRecords)

\* C16: on an empty snapshot the segmentation returns empty centers and
\* statistics without throwing, and the scan returns no unusual transaction.
C16_EmptySnapshotNeutral ==
  /\ (Len(segData) = 0 /\ segPc # "start") =>
        /\ segPc = "done"
        /\ segError = "none"
        /\ segResult = EmptyResult
  /\ (Len(insData) = 0 /\ insPc # "start") =>
        /\ insPc = "done"
        /\ unusualTransactions = <<>>

\* Both operations have returned on an empty snapshot.
C16_Witness ==
  /\ Len(segData) = 0 /\ segPc = "done"
  /\ Len(insData) = 0 /\ insPc = "done"

(***************************************************************************)
(* Properties of the time-series chart                                     *)
(***************************************************************************)
\* The chart area shows the series (neither the spinner nor the alert).
SeriesShown == ~tsLoading /\ tsError = NoError /\ Len(timeSeriesData) > 0

\* C17: when the forecast fails for lack of points and the time-series
\* request succeeded, the fetch ends without an error and the component
\* holds and shows the delivered series.
C17_ForecastFailureKeepsSeries ==
  (tsPc = "done" /\ tsOutcome = "ok" /\ ForecastFails(tsBuckets) /\ Len(tsBuckets) > 0) =>
     /\ tsError = NoError
     /\ Len(timeSeriesData) = Len(tsBuckets)
     /\ SeriesShown

RECURSIVE SumValue(_, _)
SumValue(arr, i) == IF i = 0 THEN 0 ELSE arr[i].value + SumValue(arr, i - 1)

RECURSIVE SumIndexValue(_, _)
SumIndexValue(arr, i) == IF i = 0 THEN 0 ELSE i * arr[i].value + SumIndexValue(arr, i - 1)

RECURSIVE SumIndex(_)
SumIndex(n) == IF n = 0 THEN 0 ELSE n + SumIndex(n - 1)

\* Numerator of the ordinary least-squares slope of value against the index
\* 1..n; the denominator n * sum(i^2) - sum(i)^2 is positive for n >= 2, so
\* the slope has the sign of the numerator.  The values are integers, so a
\* slope within a negligible epsilon of 0 is a slope of 0.
SlopeNumerator(arr) ==
  Len(arr) * SumIndexValue(arr, Len(arr)) - SumIndex(Len(arr)) * SumValue(arr, Len(arr))

SlopeTrend(arr) ==
  IF SlopeNumerator(arr) > 0 THEN "increasing"
  ELSE IF SlopeNumerator(arr) < 0 THEN "decreasing"
  ELSE "stable"

\* C18: for a delivered series of at least 2 points the trend direction is
\* the sign of the fitted least-squares slope.
C18_TrendFollowsSlope ==
  (tsPc = "done" /\ tsError = NoError /\ tsOutcome = "ok" /\ Len(timeSeriesData) >= 2) =>
     trendAnalysis = SlopeTrend(timeSeriesData)

\* C19: every point of a delivered series carries a moving average that is
\* not null, in the component's state and in the chart's dataset.
C19_MovingAverageNeverNull ==
  (tsPc = "done" /\ tsError = NoError /\ tsOutcome = "ok") =>
     \A i \in 1..Len(timeSeriesData) :
        /\ timeSeriesData[i].moving_avg # Null
        /\ ChartMovingAvg(timeSeriesData)[i] # Null

(***************************************************************************)
(* Properties of the outlier card                                          *)
(***************************************************************************)
\* Descending by score, equal scores in record insertion order.
SortedStable(results) ==
  \A i, j \in 1..Len(results) :
     i < j => \/ results[i].score > results[j].score
              \/ results[i].score = results[j].score /\ results[i].id < results[j].id

\* C20: the server's outlier list is sorted descending by score with ties
\* in record insertion order, and the list the card holds after a delivered
\* response is the first five entries of that list, in the same order.
C20_TopFiveKeepOrder ==
  LET results == DetectOutliers(olScores, contamination)
  IN /\ SortedStable(results)
     /\ (olPc = "done" /\ olOutcome = "ok") =>
          /\ Len(outliers) = Min2(TOP_N, Len(results))
          /\ \A i \in 1..Len(outliers) :
               /\ outliers[i].id = results[i].id
               /\ outliers[i].outlier_score = results[i].score

\* A delivered list of more than five outliers, with equal and with
\* different scores among the five kept.
C20_Witness ==
  /\ olPc = "done" /\ olOutcome = "ok"
  /\ Len(DetectOutliers(olScores, contamination)) > TOP_N
  /\ Len(outliers) = TOP_N
  /\ outliers[1].outlier_score > outliers[TOP_N].outlier_score
  /\ \E i \in 1..(TOP_N - 1) : outliers[i].outlier_score = outliers[i + 1].outlier_score

\* C21: when the outliers request fails the card shows the error message
\* and is not left without data: it holds outliers whenever the snapshot
\* has some.
C21_FailureFallsBack ==
  (olPc = "done" /\ olOutcome = "rejected") =>
     /\ olError = OutlierLoadError
     /\ ~olLoading
     /\ Len(DetectOutliers(olScores, contamination)) > 0 => Len(outliers) > 0

(***************************************************************************)
(* Properties of the transaction table                                     *)
(***************************************************************************)
\* C25: once every response to a search submitted from a later page has
\* arrived, the rows displayed are the first page of the results for the
\* submitted query.
C25_SearchShowsFirstPage ==
  (searched # NoSearch /\ requests = {} /\ tblError = NoError) =>
     transactions = TableResponse(tblCount, RequestOf(searched, 0, rowsPerPage)).transactions

(***************************************************************************)
(* Properties of App                                                       *)
(***************************************************************************)
\* C26: analysis data saved by an earlier session is, after start-up and
\* until an upload of this session, the data shown and the data in
\* localStorage.
C26_SavedDataKept ==
  (savedAtStart.json /\ appPc # "start" /\ ~uploaded) =>
     /\ analysisData = Parse(savedAtStart)
     /\ storage = savedAtStart

(***************************************************************************)
(* Properties of ProcessSelection                                          *)
(***************************************************************************)
\* The analyze button is enabled.
AnalyzeButtonEnabled == isAnalyzeEnabled(selectedProcess, uploadedFiles) /\ ~isProcessing

\* Input i of the selected process has a file uploaded for that process.
HasFileOfProcess(i) ==
  \E j \in 1..Len(uploadedFiles) :
     /\ uploadedFiles[j].inputId = ProcessInputs(selectedProcess)[i].id
     /\ uploadedFiles[j].process = selectedProcess

\* C27: outside the processing screen the analyze button is enabled exactly
\* when a process is selected and each of its required inputs has a file
\* uploaded for this process; no file of an earlier process is in the list.
C27_EnabledIffRequiredInputsUploaded ==
  ~isProcessing =>
     /\ AnalyzeButtonEnabled <=>
          /\ selectedProcess # NoProcess
          /\ \A i \in 1..Len(ProcessInputs(selectedProcess)) : HasFileOfProcess(i)
     /\ \A j \in 1..Len(uploadedFiles) : uploadedFiles[j].process = selectedProcess

\* The button is enabled for a process chosen after files had been uploaded
\* for another process and then again for this one.
C27_Witness ==
  /\ AnalyzeButtonEnabled
  /\ Len(ProcessInputs(selectedProcess)) >= 2
  /\ \A j \in 1..Len(uploadedFiles) : uploadedFiles[j].id >= 2

\* C28: no two uploaded files of the same input have the same name.
C28_NoDuplicateNames ==
  \A i, j \in 1..Len(uploadedFiles) :
     (i # j /\ uploadedFiles[i].inputId = uploadedFiles[j].inputId) =>
        uploadedFiles[i].name # uploadedFiles[j].name

(***************************************************************************)
(* Properties of FileUploader                                              *)
(***************************************************************************)
\* C29: after a failed upload request or processing request selectedFiles
\* is what it was when uploadFiles started, uploadProgress is 0,
\* onUploadComplete has not been called and uploading is false.
C29_FailureLeavesSelection ==
  lastOutcome \in {"upload_failed", "process_failed"} =>
     /\ selectedFiles = filesAtStart
     /\ uploadProgress = 0
     /\ completeCalls = callsAtStart
     /\ ~uploading

\* The processing request failed after the upload had made progress, with
\* several files selected.
C29_Witness ==
  /\ lastOutcome = "process_failed"
  /\ progressAtFailure > 0
  /\ Len(selectedFiles) >= 2

(***************************************************************************)
(* Properties of FileUpload                                                *)
(***************************************************************************)
\* C30: uploadStatus is 'success' only after the server answered an upload
\* request of handleProcessFileUpload or handleFiles with an OK response.
C30_SuccessOnlyAfterOkResponse ==
  uploadStatus = "success" => okResponses > 0

(***************************************************************************)
(* Properties of the Result Cache                                          *)
(***************************************************************************)
LeavesLookup(p) == pc[p] = "waiting" /\ pc'[p] # "waiting"

\* C2: with bypass = false a lookup returns the stored value only when the
\* stored entry's data_version equals the call's data_version; when they
\* differ the call recomputes; every value returned was computed from the
\* call's data_version.
C2_NoStaleReturn ==
  [][\A p \in Procs :
       LET k == call[p].key
           dv == call[p].data_version
       IN /\ (LeavesLookup(p) /\ pc'[p] = "returned") =>
               /\ ~call[p].bypass
               /\ store[k].present
               /\ store[k].data_version = dv
               /\ result'[p] = store[k].value
          /\ (LeavesLookup(p) /\ ~(store[k].present /\ store[k].data_version = dv)) =>
               pc'[p] = "computing"
          /\ (pc[p] # "returned" /\ pc'[p] = "returned") => result'[p].ver = dv
    ]_vars

\* A call with bypass = false is recomputing because the stored entry
\* carries an older data_version.
C2_Witness ==
  \E p \in Procs :
    /\ pc[p] = "computing"
    /\ ~call[p].bypass
    /\ store[call[p].key].present
    /\ store[call[p].key].data_version < call[p].data_version

\* C3: when a call with bypass = false follows a returned call with the
\* same key, the same data_version and bypass = false, it returns the
\* stored value without invoking compute_fn; a call that missed invokes
\* compute_fn exactly once, so the two calls invoke it once together when
\* the first one missed.
C3_SecondCallUsesStored ==
  [][\A p \in Procs :
       LET k == call[p].key
           dv == call[p].data_version
       IN /\ (/\ LeavesLookup(p)
              /\ ~call[p].bypass
              /\ last[k].valid /\ last[k].ok /\ ~last[k].bypass
              /\ last[k].data_version = dv) =>
               /\ pc'[p] = "returned"
               /\ src'[p] = "stored"
               /\ computes'[p] = 0
               /\ result'[p] = ComputeValue(k, dv)
               /\ last[k].computes + computes'[p] <= 1
          /\ (pc[p] = "computing" /\ pc'[p] = "returned" /\ ~call[p].bypass) =>
               /\ computes'[p] = 1
               /\ last'[k].computes = 1
    ]_vars

\* Two calls, one after the other, same key and data_version, bypass =
\* false: the first computed, the second returned the stored value.
C3_Witness ==
  \E p, q \in Procs :
    /\ p # q
    /\ pc[p] = "returned" /\ pc[q] = "returned"
    /\ call[p].key = call[q].key
    /\ call[p].data_version = call[q].data_version
    /\ ~call[p].bypass /\ ~call[q].bypass
    /\ q \notin overlap[p]
    /\ src[p] = "computed" /\ src[q] = "stored"
    /\ computes[p] + computes[q] = 1

\* C4: a call with bypass = true always goes on to compute_fn, whatever
\* entry is stored, and when compute_fn returns the entry of the key is
\* replaced by the new one.
C4_BypassRecomputesAndOverwrites ==
  [][\A p \in Procs :
       LET k == call[p].key
           dv == call[p].data_version
       IN call[p].bypass =>
            /\ LeavesLookup(p) => pc'[p] = "computing"
            /\ (pc[p] = "computing" /\ pc'[p] = "returned") =>
                 /\ computes'[p] = 1
                 /\ src'[p] = "computed"
                 /\ store'[k] = NewEntry(k, dv)
                 /\ result'[p] = ComputeValue(k, dv)
    ]_vars

\* A refresh request is recomputing although a fresh entry is stored.
C4_Witness ==
  \E p \in Procs :
    /\ pc[p] = "computing"
    /\ call[p].bypass
    /\ Fresh(store[call[p].key], call[p].data_version)

\* C5: when compute_fn fails the caller gets the error and the store is
\* left as it was; every stored entry holds a complete value tagged with
\* the data_version it was computed from.
C5_FailureLeavesEntry ==
  [][/\ \A p \in Procs :
          (pc[p] = "computing" /\ pc'[p] = "failed") =>
             /\ store' = store
             /\ src'[p] = "error"
             /\ result'[p] = NoValue
     /\ \A k \in Keys :
          store'[k].present => store'[k].value = ComputeValue(k, store'[k].data_version)
    ]_vars

\* A call failed on a key that has a stored entry, and that failure is the
\* last call completed on the key.
C5_Witness ==
  \E p \in Procs :
    /\ pc[p] = "failed"
    /\ store[call[p].key].present
    /\ last[call[p].key].valid
    /\ ~last[call[p].key].ok

\* C6: at most one caller per key is inside compute_fn; two overlapping
\* calls with the same key and data_version and bypass = false do not both
\* invoke compute_fn, and after both returned the entry is the complete
\* value for that data_version, which both received.
C6_SerializedPerKey ==
  /\ \A k \in Keys :
       /\ Cardinality({p \in Procs : pc[p] = "computing" /\ call[p].key = k}) <= 1
       /\ \A p \in Procs : (pc[p] = "computing" /\ call[p].key = k) => lock[k] = p
  /\ \A p, q \in Procs :
       (/\ p # q
        /\ pc[p] = "returned" /\ pc[q] = "returned"
        /\ call[p].key = call[q].key
        /\ call[p].data_version = call[q].data_version
        /\ ~call[p].bypass /\ ~call[q].bypass
        /\ q \in overlap[p]) =>
          /\ computes[p] + computes[q] <= 1
          /\ store[call[p].key] = NewEntry(call[p].key, call[p].data_version)
          /\ result[p] = store[call[p].key].value
          /\ result[q] = store[call[p].key].value

\* Two overlapping calls on one key both returned; one computed, the other
\* waited and got the stored value.
C6_Witness ==
  \E p, q \in Procs :
    /\ p # q
    /\ pc[p] = "returned" /\ pc[q] = "returned"
    /\ call[p].key = call[q].key
    /\ call[p].data_version = call[q].data_version
    /\ ~call[p].bypass /\ ~call[q].bypass
    /\ q \in overlap[p] /\ p \in overlap[q]
    /\ src[p] = "computed" /\ src[q] = "stored"

(***************************************************************************)
(* Properties of the unusual-transactions scan                             *)
(***************************************************************************)
FlaggedIdx == {unusualTransactions[j].idx : j \in 1..Len(unusualTransactions)}

IsPresent(x) == x # Absent

\* The threshold of the scan, in standard deviations.
Threshold == STD_FACTOR

\* Population statistics of a sequence p of present values: the sum, and n
\* squared times the sum of squared differences from the mean.
PopSum(p) == SumSeq(p)

RECURSIVE PopSqDiff(_, _, _)
PopSqDiff(p, n, total) ==
  IF p = <<>> THEN 0
  ELSE (n * p[1] - total) * (n * p[1] - total) + PopSqDiff(Tail(p), n, total)

\* |z| compared with a threshold t for value x against the population p,
\* where z = (x - mean) / stddev and z = 0 when stddev = 0:
\* z^2 = n * (n x - sum)^2 / PopSqDiff.
ZExceeds(x, p, t) ==
  /\ PopSqDiff(p, Len(p), PopSum(p)) > 0
  /\ Len(p) * (Len(p) * x - PopSum(p)) * (Len(p) * x - PopSum(p))
       > t * t * PopSqDiff(p, Len(p), PopSum(p))

ZEquals(x, p, t) ==
  /\ PopSqDiff(p, Len(p), PopSum(p)) > 0
  /\ Len(p) * (Len(p) * x - PopSum(p)) * (Len(p) * x - PopSum(p))
       = t * t * PopSqDiff(p, Len(p), PopSum(p))

Scenario8 == <<10, 10, 10, 1000>>

\* C8 as stated: for the values [10,10,10,1000] the scan flags the 1000
\* record and none of the 10 records.
C8_Original ==
  (insPc = "done" /\ insData = Scenario8) => FlaggedIdx = {4}

\* C8 as amended: for the values [10,10,10,1000] with threshold 2 the scan
\* flags no record (the z-score of the 1000 record is sqrt(3)).
C8_ScenarioFlagsNothing ==
  (insPc = "done" /\ insData = Scenario8) =>
     /\ FlaggedIdx = {}
     /\ ~ZExceeds(1000, Scenario8, Threshold)
     /\ ZExceeds(1000, Scenario8, 1)

C8_Witness == insPc = "done" /\ insData = Scenario8

AllSame(a) ==
  /\ Len(a) >= 1
  /\ \A i \in 1..Len(a) : IsPresent(a[i]) /\ a[i] = a[1]

\* C9: when every record has the same value, the standard deviation is 0,
\* every record's deviation from the mean is 0, no record is flagged, and
\* the only divisors (amounts.length) are non-zero.
C9_ZeroStdDevFlagsNothing ==
  (insPc = "done" /\ AllSame(insData)) =>
     /\ Mean(insData).den # 0
     /\ ScaledVariance(insData).den # 0
     /\ ~Mean(insData).nan
     /\ ScaledVariance(insData).num = 0
     /\ \A i \in 1..Len(insData) : Deviation(insData[i], Mean(insData)) = 0
     /\ unusualTransactions = <<>>

C9_Witness == insPc = "done" /\ AllSame(insData) /\ Len(insData) >= 2

\* C10 as stated: a record without amount is left out of the mean and the
\* standard deviation, and every other record is flagged exactly when its
\* z-score against the statistics of the present values exceeds the
\* threshold.
C10_AbsentExcludedFromStats ==
  insPc = "done" =>
    \A i \in 1..Len(insData) :
      IsPresent(insData[i]) =>
        (i \in FlaggedIdx <=> ZExceeds(insData[i], SelectSeq(insData, IsPresent), Threshold))

====
